---- MODULE Spec2Model ----
(***************************************************************************)
(* CodebaseToPrompt: the tree view's tri-state selection, the snapshot     *)
(* store with its asynchronous dispatch, and the directory import.         *)
(*                                                                         *)
(* One TLA+ step is one task of the browser's event loop together with the *)
(* microtasks it queues: a DOM event handler, or the completion of one     *)
(* storage / file read and every promise continuation that runs before the *)
(* next real suspension.                                                   *)
(*                                                                         *)
(* Encodings.  A path is the sequence of its '/'-separated segments.  A JS *)
(* Set is a duplicate-free sequence in insertion order, except the sets of *)
(* expanded paths, which are sets as their order is never read.  A tree of *)
(* nested node objects is the sequence of its nodes in creation order,     *)
(* each with the index of its parent (0 for the root); the children array  *)
(* of a node is the nodes naming it as parent, in index order, which is    *)
(* push order.                                                             *)
(* The null root is the empty sequence.  A text is a sequence of character *)
(* codes.                                                                  *)
(***************************************************************************)
EXTENDS Integers, Sequences, FiniteSets, TLC

VARIABLES
  state,        \* Store.state: the committed AppState
  metaDB,       \* metadataDB['treeState']: <<>> or <<the saved projection>>
  contentsDB,   \* contentsDB: path -> text
  subscribers,  \* the module-level Set of callbacks (store.js:27)
  chains,       \* the asynchronous call chains in flight, by slot
  saveQueue,    \* metadata writes started and not yet completed, oldest first
  tvData,       \* TreeView._data
  tvSelected,   \* TreeView._selectedPaths
  tvExpanded,   \* TreeView._expandedPaths (a set: its order is never read)
  tvRendered,   \* what TreeView._render last drew: one row per visible node
  tvClicks,     \* the last checkbox clicks made in a row (at most two)
  output,       \* what updateUI last put on the page: the counters and the <pre> text
  trace,        \* what the latest step did, in order
  userEvents,   \* user events (clicks, directory choices, API calls) so far
  heap          \* the objects handed out by the store, by identity (snapshot specification)

vars == <<state, metaDB, contentsDB, subscribers, chains, saveQueue,
          tvData, tvSelected, tvExpanded, tvRendered, tvClicks, output, trace, userEvents, heap>>

storeVars == <<state, metaDB, contentsDB, subscribers, chains, saveQueue>>

tvVars == <<tvData, tvSelected, tvExpanded, tvRendered, tvClicks, output>>

-----------------------------------------------------------------------------
(* Bounds *)

\* files in one chosen directory (tree view specification)
MaxFiles == 3

\* user events in one behaviour
MaxUserEvents == 4

\* no object of the snapshot specification exists in the others
NoHeap == <<>>

UserEvent == userEvents < MaxUserEvents /\ userEvents' = userEvents + 1 /\ UNCHANGED heap

-----------------------------------------------------------------------------
(* Generic helpers *)

Range(s) == {s[i] : i \in 1..Len(s)}

Last(s) == s[Len(s)]

RECURSIVE Concat(_)
Concat(ss) == IF ss = <<>> THEN <<>> ELSE Head(ss) \o Concat(Tail(ss))

\* Set.prototype.has / add / delete and new Set(iterable), on insertion order
SetHas(s, x) == \E i \in 1..Len(s) : s[i] = x

SetAdd(s, x) == IF SetHas(s, x) THEN s ELSE Append(s, x)

SetDelete(s, x) == SelectSeq(s, LAMBDA y : y # x)

RECURSIVE SetAddAll(_, _)
SetAddAll(s, xs) == IF xs = <<>> THEN s ELSE SetAddAll(SetAdd(s, Head(xs)), Tail(xs))

RECURSIVE SetDeleteAll(_, _)
SetDeleteAll(s, xs) == IF xs = <<>> THEN s ELSE SetDeleteAll(SetDelete(s, Head(xs)), Tail(xs))

NewSet(xs) == SetAddAll(<<>>, xs)

-----------------------------------------------------------------------------
(* The tree: FileTreeViewer.buildFileTree *)

NoRoot == <<>>

DirNode(name, path, parent) ==
  [name |-> name, path |-> path, isDir |-> TRUE, isTextFile |-> FALSE,
   size |-> 0, parent |-> parent]

FileNode(name, path, size, isTextFile, parent) ==
  [name |-> name, path |-> path, isDir |-> FALSE, isTextFile |-> isTextFile,
   size |-> size, parent |-> parent]

\* node.children, in push order
Children(tree, i) == SelectSeq([j \in 1..Len(tree) |-> j], LAMBDA j : tree[j].parent = i)

\* a find that never finds the directory
FindChildDirNever(tree, current, part) == 0

\* current.children.find((c) => c.name === part && c.isDir); 0 when absent
FindChildDir(tree, current, part) ==
  LET hits == SelectSeq(Children(tree, current),
                        LAMBDA j : tree[j].name = part /\ tree[j].isDir)
  IN IF hits = <<>> THEN 0 ELSE Head(hits)

\* parts.forEach((part, idx) => ...) from idx on, for one file
RECURSIVE AddParts(_, _, _, _)
AddParts(tree, file, idx, current) ==
  LET parts == file.path IN
  IF idx > Len(parts) THEN tree
  ELSE IF idx = Len(parts)
    THEN Append(tree, FileNode(parts[idx], SubSeq(parts, 1, idx), file.size,
                               file.isText, current))
    ELSE LET childDir == FindChildDir(tree, current, parts[idx]) IN
         IF childDir = 0
           THEN AddParts(Append(tree, DirNode(parts[idx], SubSeq(parts, 1, idx), current)),
                         file, idx + 1, Len(tree) + 1)
           ELSE AddParts(tree, file, idx + 1, childDir)

RECURSIVE AddFiles(_, _)
AddFiles(tree, files) ==
  IF files = <<>> THEN tree
  ELSE AddFiles(AddParts(tree, Head(files), 2, 1), Tail(files))

buildFileTree(files) ==
  IF files = <<>> THEN NoRoot
  ELSE LET basePath == files[1].path[1]
       IN AddFiles(<<DirNode(basePath, <<basePath>>, 0)>>, files)

\* _walk(node, fn): the nodes fn is called on, in call order
RECURSIVE Walk(_, _)
Walk(tree, i) ==
  LET cs == Children(tree, i)
  IN <<i>> \o Concat([k \in 1..Len(cs) |-> Walk(tree, cs[k])])

-----------------------------------------------------------------------------
(* The tree view component: TreeView *)

\* _countTextFiles(node)
RECURSIVE CountOver(_, _, _)
CountOver(tree, is, sel) ==
  IF is = <<>> THEN [total |-> 0, selected |-> 0]
  ELSE LET child == tree[Head(is)]
           rest == CountOver(tree, Tail(is), sel)
       IN IF ~child.isDir /\ child.isTextFile
            THEN [total |-> rest.total + 1,
                  selected |-> rest.selected + (IF SetHas(sel, child.path) THEN 1 ELSE 0)]
            ELSE rest

countTextFiles(tree, i, sel) == CountOver(tree, Walk(tree, i), sel)

\* _computeCheckboxState with any selected file making the directory checked
computeCheckboxStateAnySelected(tree, i, sel) ==
  LET node == tree[i] IN
  IF ~node.isDir /\ ~node.isTextFile THEN [checked |-> FALSE, indeterminate |-> FALSE]
  ELSE IF ~node.isDir THEN [checked |-> SetHas(sel, node.path), indeterminate |-> FALSE]
  ELSE LET c == CountOver(tree, Walk(tree, i), sel) IN
       IF c.total = 0 THEN [checked |-> FALSE, indeterminate |-> FALSE]
       ELSE IF c.selected = 0 THEN [checked |-> FALSE, indeterminate |-> FALSE]
       ELSE [checked |-> TRUE, indeterminate |-> FALSE]

\* _computeCheckboxState with the selected === total test made first
computeCheckboxStateEqualFirst(tree, i, sel) ==
  LET node == tree[i] IN
  IF ~node.isDir /\ ~node.isTextFile THEN [checked |-> FALSE, indeterminate |-> FALSE]
  ELSE IF ~node.isDir THEN [checked |-> SetHas(sel, node.path), indeterminate |-> FALSE]
  ELSE LET c == CountOver(tree, Walk(tree, i), sel) IN
       IF c.selected = c.total THEN [checked |-> TRUE, indeterminate |-> FALSE]
       ELSE IF c.selected = 0 THEN [checked |-> FALSE, indeterminate |-> FALSE]
       ELSE [checked |-> FALSE, indeterminate |-> TRUE]

\* _computeCheckboxState without its first test: a file is checked when its path is selected
computeCheckboxStateHas(tree, i, sel) ==
  LET node == tree[i] IN
  IF ~node.isDir THEN [checked |-> SetHas(sel, node.path), indeterminate |-> FALSE]
  ELSE LET c == CountOver(tree, Walk(tree, i), sel) IN
       IF c.total = 0 \/ c.selected = 0 THEN [checked |-> FALSE, indeterminate |-> FALSE]
       ELSE IF c.selected = c.total THEN [checked |-> TRUE, indeterminate |-> FALSE]
       ELSE [checked |-> FALSE, indeterminate |-> TRUE]

\* _computeCheckboxState(node)
computeCheckboxState(tree, i, sel) ==
  LET node == tree[i] IN
  IF ~node.isDir /\ ~node.isTextFile THEN [checked |-> FALSE, indeterminate |-> FALSE]
  ELSE IF ~node.isDir THEN [checked |-> SetHas(sel, node.path), indeterminate |-> FALSE]
  ELSE LET c == CountOver(tree, Walk(tree, i), sel) IN
       IF c.total = 0 THEN [checked |-> FALSE, indeterminate |-> FALSE]
       ELSE IF c.selected = 0 THEN [checked |-> FALSE, indeterminate |-> FALSE]
       ELSE IF c.selected = c.total THEN [checked |-> TRUE, indeterminate |-> FALSE]
       ELSE [checked |-> FALSE, indeterminate |-> TRUE]

\* a walk that starts at the root whatever node was given
EligiblePathsOnRoot(tree, i) ==
  LET hit == SelectSeq(Walk(tree, 1), LAMBDA j : ~tree[j].isDir /\ tree[j].isTextFile)
  IN [k \in 1..Len(hit) |-> tree[hit[k]].path]

\* the eligible file paths fn meets on _walk(node, ...), in walk order
EligiblePathsOn(tree, i) ==
  LET hit == SelectSeq(Walk(tree, i), LAMBDA j : ~tree[j].isDir /\ tree[j].isTextFile)
  IN [k \in 1..Len(hit) |-> tree[hit[k]].path]

\* _selectSubtree adding every file, text or not
selectSubtreeAllFiles(tree, i, sel) ==
  LET hit == SelectSeq(Walk(tree, i), LAMBDA j : ~tree[j].isDir)
  IN SetAddAll(sel, [k \in 1..Len(hit) |-> tree[hit[k]].path])

selectSubtree(tree, i, sel) == SetAddAll(sel, EligiblePathsOn(tree, i))

unselectSubtree(tree, i, sel) == SetDeleteAll(sel, EligiblePathsOn(tree, i))

\* _handleCheckboxClick taking a partially selected directory for a full one
handleCheckboxClickAnySelected(tree, i, sel) ==
  LET node == tree[i] IN
  IF node.isDir
    THEN LET c == countTextFiles(tree, i, sel)
             fullySelected == c.selected > 0
         IN IF fullySelected THEN unselectSubtree(tree, i, sel)
                             ELSE selectSubtree(tree, i, sel)
  ELSE IF node.isTextFile
    THEN IF SetHas(sel, node.path) THEN SetDelete(sel, node.path)
                                   ELSE SetAdd(sel, node.path)
  ELSE sel

\* _handleCheckboxClick(event, node): the new _selectedPaths
handleCheckboxClick(tree, i, sel) ==
  LET node == tree[i] IN
  IF node.isDir
    THEN LET c == countTextFiles(tree, i, sel)
             fullySelected == c.total > 0 /\ c.total = c.selected
         IN IF fullySelected THEN unselectSubtree(tree, i, sel)
                             ELSE selectSubtree(tree, i, sel)
  ELSE IF node.isTextFile
    THEN IF SetHas(sel, node.path) THEN SetDelete(sel, node.path)
                                   ELSE SetAdd(sel, node.path)
  ELSE sel

\* _renderNode's sort: (a, b) => a.isDir === b.isDir ? a.name.localeCompare(b.name)
\*                                                   : b.isDir - a.isDir
\* localeCompare on the names used here, smallest first
LocaleOrder == <<"a.txt", "c.txt", "d", "e.dat", "f.txt", "i.png", "p", "q", "r", "s",
                 "x.txt", "y.txt", "z.dat">>

NameRank(n) == CHOOSE k \in 1..Len(LocaleOrder) : LocaleOrder[k] = n

SortsBefore(a, b) ==
  IF a.isDir = b.isDir THEN NameRank(a.name) < NameRank(b.name) ELSE a.isDir

RECURSIVE InsertSorted(_, _, _)
InsertSorted(tree, sorted, j) ==
  IF sorted = <<>> THEN <<j>>
  ELSE IF SortsBefore(tree[j], tree[Head(sorted)]) THEN <<j>> \o sorted
  ELSE <<Head(sorted)>> \o InsertSorted(tree, Tail(sorted), j)

RECURSIVE SortIndices(_, _)
SortIndices(tree, is) ==
  IF is = <<>> THEN <<>>
  ELSE InsertSorted(tree, SortIndices(tree, SubSeq(is, 1, Len(is) - 1)), Last(is))

sortedChildren(tree, i) == SortIndices(tree, Children(tree, i))

\* _renderNode(node, level, parent): the rows drawn for node and below
RECURSIVE renderNode(_, _, _, _)
renderNode(tree, i, sel, exp) ==
  LET node == tree[i]
      cs == computeCheckboxState(tree, i, sel)
      row == [node |-> i, path |-> node.path,
              checkbox |-> (node.isDir \/ node.isTextFile),
              checked |-> cs.checked, indeterminate |-> cs.indeterminate]
      kids == sortedChildren(tree, i)
  IN <<row>> \o
     (IF node.isDir /\ node.path \in exp
        THEN Concat([k \in 1..Len(kids) |-> renderNode(tree, kids[k], sel, exp)])
        ELSE <<>>)

\* _render()
render(tree, sel, exp) == IF tree = NoRoot THEN <<>> ELSE renderNode(tree, 1, sel, exp)

\* a toggle that, on collapsing, also drops the paths below the collapsed one
toggleExpandedCascade(exp, path) ==
  IF path \in exp
  THEN {q \in exp : ~(Len(path) <= Len(q) /\ SubSeq(q, 1, Len(path)) = path)}
  ELSE exp \cup {path}

\* _toggleExpanded(path): the new _expandedPaths
toggleExpanded(exp, path) == IF path \in exp THEN exp \ {path} ELSE exp \cup {path}

-----------------------------------------------------------------------------
(* The state and the action creators: store.js initialState, actions.js *)

EmptyMap == <<>>

Put(m, k, v) == [x \in DOMAIN m \cup {k} |-> IF x = k THEN v ELSE m[x]]

initialState ==
  [root |-> NoRoot, selectedPaths |-> <<>>, fileContents |-> EmptyMap,
   expandedNodes |-> {}, stats |-> [selectedCount |-> 0, totalTokens |-> 0]]

\* calculateTokens(fileContents, selectedPaths)
RECURSIVE TotalChars(_, _)
TotalChars(fileContents, paths) ==
  IF paths = <<>> THEN 0
  ELSE LET path == Head(paths)
           content == IF path \in DOMAIN fileContents THEN fileContents[path] ELSE <<>>
       IN (IF content # <<>> THEN Len(content) ELSE 0) + TotalChars(fileContents, Tail(paths))

\* the estimate with the quotient rounded down
calculateTokensFloor(fileContents, selectedPaths) ==
  TotalChars(fileContents, selectedPaths) \div 4

calculateTokens(fileContents, selectedPaths) ==
  (TotalChars(fileContents, selectedPaths) + 3) \div 4

setRoot(st, root) == [st EXCEPT !.root = root]

\* bulkSelectPaths with its two loops in the other order
bulkSelectPathsDeleteFirst(st, pathsToSelect, pathsToDeselect) ==
  [st EXCEPT !.selectedPaths = SetAddAll(SetDeleteAll(@, pathsToDeselect), pathsToSelect)]

bulkSelectPaths(st, pathsToSelect, pathsToDeselect) ==
  [st EXCEPT !.selectedPaths = SetDeleteAll(SetAddAll(@, pathsToSelect), pathsToDeselect)]

toggleSelected(st, path, selected) ==
  [st EXCEPT !.selectedPaths = IF selected THEN SetAdd(@, path) ELSE SetDelete(@, path)]

toggleExpandedAction(st, path) ==
  [st EXCEPT !.expandedNodes = IF path \in @ THEN @ \ {path} ELSE @ \cup {path}]

setExpanded(st, path, expand) ==
  [st EXCEPT !.expandedNodes = IF expand THEN @ \cup {path} ELSE @ \ {path}]

\* the draft after line 505; the storage write of line 506 is the chain's next step
setFileContents(st, path, content) ==
  [st EXCEPT !.fileContents = Put(@, path, content)]

updateStats(st) ==
  [st EXCEPT !.stats = [selectedCount |-> Len(st.selectedPaths),
                        totalTokens |-> calculateTokens(st.fileContents, st.selectedPaths)]]

\* a reset that clears the root only
resetRootOnly(st) == [st EXCEPT !.root = NoRoot]

\* the draft after lines 516-521; clearing contentsDB is the chain's next steps
reset(st) ==
  [root |-> NoRoot, selectedPaths |-> <<>>, fileContents |-> EmptyMap,
   expandedNodes |-> {}, stats |-> [selectedCount |-> 0, totalTokens |-> 0]]

bulkSetExpanded(st, pathsToExpand, pathsToCollapse) ==
  [st EXCEPT !.expandedNodes = (@ \cup Range(pathsToExpand)) \ Range(pathsToCollapse)]

\* the handlers' own action functions (viewer.js constructor)
setSelectedPaths(st, selectedPaths) == [st EXCEPT !.selectedPaths = NewSet(selectedPaths)]

setExpandedNodes(st, expandedPaths) == [st EXCEPT !.expandedNodes = expandedPaths]

\* actionFn(draft), up to its first real suspension
Reduce(act, st) ==
  CASE act.kind = "setRoot" -> setRoot(st, act.root)
    [] act.kind = "bulkSelectPaths" -> bulkSelectPaths(st, act.pathsToSelect, act.pathsToDeselect)
    [] act.kind = "toggleSelected" -> toggleSelected(st, act.path, act.selected)
    [] act.kind = "toggleExpanded" -> toggleExpandedAction(st, act.path)
    [] act.kind = "setExpanded" -> setExpanded(st, act.path, act.expand)
    [] act.kind = "setFileContents" -> setFileContents(st, act.path, act.content)
    [] act.kind = "updateStats" -> updateStats(st)
    [] act.kind = "reset" -> reset(st)
    [] act.kind = "bulkSetExpanded" -> bulkSetExpanded(st, act.pathsToExpand, act.pathsToCollapse)
    [] act.kind = "setSelectedPaths" -> setSelectedPaths(st, act.selectedPaths)
    [] act.kind = "setExpandedNodes" -> setExpandedNodes(st, act.expandedPaths)

-----------------------------------------------------------------------------
(* The output pane: FileTreeViewer.updateUI and generateAsciiTree.  A string *)
(* is the sequence of its pieces; the piece "\n" is the line feed, and the   *)
(* box-drawing connectors U+2514, U+251C and U+2502 followed by U+2500 or    *)
(* blanks are written "L-- ", "T-- " and "|   ".                             *)

\* String.fromCharCode on the character codes used for contents
FromCharCode(code) == IF code = 10 THEN "\n" ELSE ToString(code)

\* the string of a content
ContentString(content) == [k \in 1..Len(content) |-> FromCharCode(content[k])]

\* the string of a path: its segments with '/' between them
RECURSIVE PathString(_)
PathString(path) ==
  IF Len(path) <= 1 THEN path ELSE <<Head(path), "/">> \o PathString(Tail(path))

\* anyChildSelected(node, selectedPaths)
RECURSIVE anyChildSelected(_, _, _)
anyChildSelected(tree, i, sel) ==
  \E ch \in Range(Children(tree, i)) :
    SetHas(sel, tree[ch].path) \/ (tree[ch].isDir /\ anyChildSelected(tree, ch, sel))

\* a filter that keeps the children whose own path is selected
visibleChildrenDirect(tree, i, sel) ==
  SelectSeq(Children(tree, i), LAMBDA ch : SetHas(sel, tree[ch].path))

\* the filter of generateAsciiTree: the children that get a line, in children order
visibleChildren(tree, i, sel) ==
  SelectSeq(Children(tree, i),
            LAMBDA ch : SetHas(sel, tree[ch].path)
                        \/ (tree[ch].isDir /\ anyChildSelected(tree, ch, sel)))

\* generateAsciiTree(node, selectedPaths, prefix, isLast)
RECURSIVE generateAsciiTree(_, _, _, _, _)
generateAsciiTree(tree, i, sel, prefix, isLast) ==
  LET node == tree[i]
      nodeSelected == SetHas(sel, node.path)
      childSelected == anyChildSelected(tree, i, sel)
      connector == IF isLast THEN "L-- " ELSE "T-- "
      childPrefix == IF isLast THEN "    " ELSE "|   "
      visible == visibleChildren(tree, i, sel)
  IN IF ~nodeSelected /\ ~childSelected THEN <<>>
     ELSE prefix \o <<connector, node.name, "\n">>
          \o Concat([k \in 1..Len(visible) |->
                       generateAsciiTree(tree, visible[k], sel,
                                         Append(prefix, childPrefix), k = Len(visible))])

\* `<folder-structure>\n${...}\n</folder-structure>`
folderBlock(tree, sel) ==
  <<"<folder-structure>", "\n">> \o generateAsciiTree(tree, 1, sel, <<>>, TRUE)
  \o <<"\n", "</folder-structure>">>

\* `<document path="${path}">\n${content}\n</document>`
documentBlock(path, content) ==
  <<"<document path=\"">> \o PathString(path) \o <<"\">", "\n">>
  \o ContentString(content) \o <<"\n", "</document>">>

\* updateUI: the loop pushing the document blocks
RECURSIVE documentBlocks(_, _)
documentBlocks(fileContents, paths) ==
  IF paths = <<>> THEN <<>>
  ELSE LET path == Head(paths)
           content == IF path \in DOMAIN fileContents THEN fileContents[path] ELSE <<>>
       IN (IF content # <<>> THEN <<documentBlock(path, content)>> ELSE <<>>)
          \o documentBlocks(fileContents, Tail(paths))

\* lines.join('\n\n')
RECURSIVE Join(_)
Join(lines) ==
  IF lines = <<>> THEN <<>>
  ELSE IF Len(lines) = 1 THEN lines[1]
  ELSE lines[1] \o <<"\n", "\n">> \o Join(Tail(lines))

\* what index.html shows before the first updateUI
NoOutput == [selectedCount |-> 0, estimatedTokens |-> 0, lines |-> <<>>, text |-> <<>>]

\* an updateUI that pushes a document block for every selected path
updateUIEveryPath(st) ==
  LET content(q) == IF q \in DOMAIN st.fileContents THEN st.fileContents[q] ELSE <<>>
      lines == <<folderBlock(st.root, st.selectedPaths)>>
               \o [k \in 1..Len(st.selectedPaths) |->
                     documentBlock(st.selectedPaths[k], content(st.selectedPaths[k]))]
  IN [selectedCount |-> st.stats.selectedCount, estimatedTokens |-> st.stats.totalTokens,
      lines |-> lines, text |-> Join(lines)]

\* FileTreeViewer.updateUI(state): the counters, the lines array and the <pre> text
updateUI(st) ==
  LET lines == <<folderBlock(st.root, st.selectedPaths)>>
               \o documentBlocks(st.fileContents, st.selectedPaths)
  IN [selectedCount |-> st.stats.selectedCount, estimatedTokens |-> st.stats.totalTokens,
      lines |-> lines, text |-> Join(lines)]

-----------------------------------------------------------------------------
(* The store: Store.dispatch, Store._notify, Store.getState, saveAllMetadata *)

\* simultaneous asynchronous call chains
MaxChains == 2

\* the number of steps the caller takes from a stored state
MaxOps == 2

Chain == 1..MaxChains

Idle == [proc |-> "idle"]

IsIdle(c) == chains[c].proc = "idle"

HasFreeSlot == \E c \in Chain : IsIdle(c)

FreeSlot == CHOOSE c \in Chain : IsIdle(c) /\ \A b \in Chain : IsIdle(b) => c <= b

\* a chain awaiting the metadata write of the dispatch it made
Saving(proc, files, k) == [proc |-> proc, pc |-> "save", files |-> files, k |-> k]

\* the same for a dispatch of reset(); held records the keys the contents store
\* had when the action function was called
SavingReset(proc, held) ==
  [proc |-> proc, pc |-> "save", files |-> <<>>, k |-> 0, held |-> held]

\* IndexedDB hands out keys in ascending order; a path's key is compared segment by
\* segment (the names used here are lower-case, where localeCompare and key order agree)
RECURSIVE PathBefore(_, _)
PathBefore(a, b) ==
  IF a = <<>> THEN b # <<>>
  ELSE IF b = <<>> THEN FALSE
  ELSE IF Head(a) = Head(b) THEN PathBefore(Tail(a), Tail(b))
  ELSE NameRank(Head(a)) < NameRank(Head(b))

RECURSIVE SortedKeys(_)
SortedKeys(ks) ==
  IF ks = {} THEN <<>>
  ELSE LET k == CHOOSE x \in ks : \A y \in ks \ {x} : PathBefore(x, y)
       IN <<k>> \o SortedKeys(ks \ {k})

\* Array.from(state.expandedNodes): the order of the expanded paths is never read,
\* the ascending one stands for it
ArrayFrom(S) == SortedKeys(S)

\* saveAllMetadata's serializable object
Projection(st) ==
  [root |-> st.root, selectedPaths |-> st.selectedPaths,
   expandedNodes |-> ArrayFrom(st.expandedNodes), stats |-> st.stats]

\* loadAllMetadata(): saved || {}
loadAllMetadata(meta) == IF meta = <<>> THEN <<>> ELSE meta

\* a load that takes every entry of the contents store
loadEveryContent(db, selectedPaths) == db

\* loadAllContents(selectedPaths): the truthy contents of the selected paths
loadAllContents(db, selectedPaths) ==
  [path \in {q \in Range(selectedPaths) : q \in DOMAIN db /\ db[q] # <<>>} |-> db[path]]

\* a Store._init() that takes the root and the stats only from what was saved
storeInitSpreadOnly(meta, db) ==
  LET loadedMeta == loadAllMetadata(meta) IN
  IF loadedMeta = <<>> THEN initialState
  ELSE [root |-> loadedMeta[1].root, selectedPaths |-> <<>>, expandedNodes |-> {},
        stats |-> loadedMeta[1].stats, fileContents |-> EmptyMap]

\* Store._init(): the state built from what the two stores hold
storeInit(meta, db) ==
  LET loadedMeta == loadAllMetadata(meta)
      mergedState ==
        IF loadedMeta = <<>> THEN initialState
        ELSE [root |-> loadedMeta[1].root,
              selectedPaths |-> NewSet(loadedMeta[1].selectedPaths),
              expandedNodes |-> Range(loadedMeta[1].expandedNodes),
              stats |-> loadedMeta[1].stats,
              fileContents |-> EmptyMap]
  IN [mergedState EXCEPT !.fileContents = loadAllContents(db, mergedState.selectedPaths)]

\* a getState() handing out the draft of an action suspended on its storage write
getStateOfDraft(st) ==
  IF \E c \in Chain : ~IsIdle(c) /\ chains[c].pc = "write"
    THEN chains[CHOOSE c \in Chain : ~IsIdle(c) /\ chains[c].pc = "write"].draft
    ELSE st

\* getState(): structuredClone(this.state)
getState(st) == st

getStateEvent == [ev |-> "getState", st |-> getState(state)]

\* a _notify() that passes over the first subscriber
notifyButFirst(subs, st) ==
  [k \in 1..(Len(subs) - 1) |-> [ev |-> "notify", cb |-> subs[k + 1], st |-> st]]

\* _notify(): one call per subscriber, in the Set's order, each given this.state
notify(subs, st) == [k \in 1..Len(subs) |-> [ev |-> "notify", cb |-> subs[k], st |-> st]]

\* dispatch, lines 76-82: replace this.state, _notify(), start saveAllMetadata
commitEvents(c, act, subs, st) ==
  <<[ev |-> "replace", chain |-> c, act |-> act, st |-> st]>>
  \o notify(subs, st)
  \o <<[ev |-> "save", chain |-> c, meta |-> Projection(st)]>>

\* FileTreeViewer.handleStateChange(state), on the <tree-view> properties and the page
handleStateChange(st, tv) ==
  IF st.root = NoRoot THEN [tv EXCEPT !.data = NoRoot]
  ELSE [data |-> st.root, sel |-> NewSet(st.selectedPaths), exp |-> st.expandedNodes,
        out |-> updateUI(st)]

\* the subscriber main.js registers is "viewer"; any other callback only observes
Delivered(subs, st, tv) == IF SetHas(subs, "viewer") THEN handleStateChange(st, tv) ELSE tv

TVNow == [data |-> tvData, sel |-> tvSelected, exp |-> tvExpanded, out |-> output]

SetTreeView(tv) ==
  /\ tvData' = tv.data
  /\ tvSelected' = tv.sel
  /\ tvExpanded' = tv.exp
  /\ tvRendered' = render(tv.data, tv.sel, tv.exp)
  /\ output' = tv.out

\* the second half of dispatch, run when actionFn(draft) has resolved
Commit(c, act, draft, pre, tv, queue) ==
  /\ state' = draft
  /\ trace' = pre \o commitEvents(c, act, subscribers, draft)
  /\ saveQueue' = Append(queue, [chain |-> c, meta |-> Projection(draft)])
  /\ SetTreeView(Delivered(subscribers, draft, tv))
  /\ tvClicks' = <<>>

\* the first half of dispatch for an action that awaits storage: the chain keeps the draft
Suspended(proc, act, files, k) ==
  [proc |-> proc, pc |-> "write", act |-> act, draft |-> Reduce(act, state),
   files |-> files, k |-> k]

\* contentsDB.setItem(path, content) completes; actionFn resolves; dispatch goes on
ContentWriteDone(c) ==
  /\ UNCHANGED <<userEvents, heap>>
  /\ ~IsIdle(c)
  /\ chains[c].pc = "write"
  /\ chains[c].act.kind = "setFileContents"
  /\ contentsDB' = Put(contentsDB, chains[c].act.path, chains[c].act.content)
  /\ Commit(c, chains[c].act, chains[c].draft, <<>>, TVNow, saveQueue)
  /\ chains' = [chains EXCEPT ![c] = Saving(chains[c].proc, chains[c].files, chains[c].k)]
  /\ UNCHANGED <<metaDB, subscribers>>

\* a metadata write that lands only when storage holds no record yet
SaveDoneLastFirstOnly ==
  /\ UNCHANGED <<userEvents, heap>>
  /\ saveQueue # <<>>
  /\ LET c == Head(saveQueue).chain IN
     /\ chains[c].proc = "once"
     /\ metaDB' = IF metaDB = <<>> THEN <<Head(saveQueue).meta>> ELSE metaDB
     /\ saveQueue' = Tail(saveQueue)
     /\ chains' = [chains EXCEPT ![c] = Idle]
     /\ trace' = <<>>
     /\ tvClicks' = <<>>
     /\ UNCHANGED <<state, contentsDB, subscribers, tvData, tvSelected, tvExpanded, tvRendered, output>>

\* the oldest metadata write completes; its dispatch resolves; nothing follows it
SaveDoneLast ==
  /\ UNCHANGED <<userEvents, heap>>
  /\ saveQueue # <<>>
  /\ LET c == Head(saveQueue).chain IN
     /\ chains[c].proc = "once"
     /\ metaDB' = <<Head(saveQueue).meta>>
     /\ saveQueue' = Tail(saveQueue)
     /\ chains' = [chains EXCEPT ![c] = Idle]
     /\ trace' = <<>>
     /\ tvClicks' = <<>>
     /\ UNCHANGED <<state, contentsDB, subscribers, tvData, tvSelected, tvExpanded, tvRendered, output>>

\* ... and the handler's .then() / next line dispatches updateStats()
SaveDoneThenStats ==
  /\ UNCHANGED <<userEvents, heap>>
  /\ saveQueue # <<>>
  /\ LET c == Head(saveQueue).chain
         act == [kind |-> "updateStats"]
     IN
     /\ chains[c].proc = "thenStats"
     /\ metaDB' = <<Head(saveQueue).meta>>
     /\ Commit(c, act, Reduce(act, state), <<>>, TVNow, Tail(saveQueue))
     /\ chains' = [chains EXCEPT ![c] = Saving("once", <<>>, 0)]
     /\ UNCHANGED <<contentsDB, subscribers>>

Without(m, k) == [x \in DOMAIN m \ {k} |-> m[x]]

\* reset(): contentsDB.keys() resolves with no key; actionFn resolves; dispatch goes on
ResetKeysNone(c) ==
  /\ UNCHANGED <<userEvents, heap>>
  /\ ~IsIdle(c)
  /\ chains[c].pc = "keys"
  /\ DOMAIN contentsDB = {}
  /\ Commit(c, chains[c].act, chains[c].draft, <<>>, TVNow, saveQueue)
  /\ chains' = [chains EXCEPT ![c] = SavingReset(chains[c].proc, chains[c].held)]
  /\ UNCHANGED <<metaDB, contentsDB, subscribers>>

\* reset(): contentsDB.keys() resolves with keys; the first removeItem starts
ResetKeysSome(c) ==
  /\ UNCHANGED <<userEvents, heap>>
  /\ ~IsIdle(c)
  /\ chains[c].pc = "keys"
  /\ DOMAIN contentsDB # {}
  /\ chains' = [chains EXCEPT ![c] = [proc |-> chains[c].proc, pc |-> "remove",
                                      act |-> chains[c].act, draft |-> chains[c].draft,
                                      held |-> chains[c].held,
                                      keys |-> SortedKeys(DOMAIN contentsDB)]]
  /\ trace' = <<>>
  /\ tvClicks' = <<>>
  /\ UNCHANGED <<state, metaDB, contentsDB, subscribers, saveQueue,
                 tvData, tvSelected, tvExpanded, tvRendered, output>>

\* reset(): one removeItem completes and the next one starts
ResetRemoveNext(c) ==
  /\ UNCHANGED <<userEvents, heap>>
  /\ ~IsIdle(c)
  /\ chains[c].pc = "remove"
  /\ Len(chains[c].keys) > 1
  /\ contentsDB' = Without(contentsDB, Head(chains[c].keys))
  /\ chains' = [chains EXCEPT ![c].keys = Tail(@)]
  /\ trace' = <<>>
  /\ tvClicks' = <<>>
  /\ UNCHANGED <<state, metaDB, subscribers, saveQueue,
                 tvData, tvSelected, tvExpanded, tvRendered, output>>

\* reset(): the last removeItem completes; actionFn resolves; dispatch goes on
ResetRemoveLast(c) ==
  /\ UNCHANGED <<userEvents, heap>>
  /\ ~IsIdle(c)
  /\ chains[c].pc = "remove"
  /\ Len(chains[c].keys) = 1
  /\ contentsDB' = Without(contentsDB, Head(chains[c].keys))
  /\ Commit(c, chains[c].act, chains[c].draft, <<>>, TVNow, saveQueue)
  /\ chains' = [chains EXCEPT ![c] = SavingReset(chains[c].proc, chains[c].held)]
  /\ UNCHANGED <<metaDB, subscribers>>

-----------------------------------------------------------------------------
(* The viewer: FileTreeViewer in main.js (viewer.js) *)

IGNORED_DIRECTORIES == {"node_modules", "venv", ".git", "__pycache__", ".idea", ".vscode"}

\* the names the ignore list's endsWith / === test rejects, among the names used here
IgnoredNames == {"i.png"}

Ignored(file) ==
  \/ \E k \in 1..Len(file.path) : file.path[k] \in IGNORED_DIRECTORIES
  \/ Last(file.path) \in IgnoredNames

File(path, isText, text) == [path |-> path, size |-> Len(text), isText |-> isText, text |-> text]

\* the directories the user can choose
DirFiles(d) ==
  CASE d = "p" -> <<File(<<"p", "x.txt">>, TRUE, <<1, 2, 3, 4, 5>>),
                    File(<<"p", "y.txt">>, TRUE, <<1>>)>>
    [] d = "q" -> <<File(<<"q", "i.png">>, FALSE, <<9>>),
                    File(<<"q", "x.txt">>, TRUE, <<2, 2>>),
                    File(<<"q", "z.dat">>, FALSE, <<0>>)>>

Dirs == {"p", "q"}

\* the next file of the loop at lines 169-180 that is not skipped; 0 when the loop ends
NextTextFile(files, k) ==
  LET later == {j \in (k + 1)..Len(files) : files[j].isText}
  IN IF later = {} THEN 0 ELSE CHOOSE j \in later : \A i \in later : j <= i

\* handleFileSelect(files) up to its first await of a dispatch
ChooseDirectory(d) ==
  LET files == SelectSeq(DirFiles(d), LAMBDA f : ~Ignored(f))
      act == [kind |-> "setRoot", root |-> buildFileTree(files)]
      c == FreeSlot
  IN
  /\ UserEvent
  /\ HasFreeSlot
  /\ files # <<>>
  /\ Commit(c, act, Reduce(act, state), <<>>, TVNow, saveQueue)
  /\ chains' = [chains EXCEPT ![c] = Saving("import", files, 0)]
  /\ UNCHANGED <<metaDB, contentsDB, subscribers>>

\* the awaited dispatch of an import resolves and the loop starts reading the next file
SaveDoneImportNext ==
  /\ UNCHANGED <<userEvents, heap>>
  /\ saveQueue # <<>>
  /\ LET c == Head(saveQueue).chain IN
     /\ chains[c].proc = "import"
     /\ NextTextFile(chains[c].files, chains[c].k) # 0
     /\ metaDB' = <<Head(saveQueue).meta>>
     /\ saveQueue' = Tail(saveQueue)
     /\ chains' = [chains EXCEPT ![c] =
                     [proc |-> "import", pc |-> "extract", files |-> chains[c].files,
                      k |-> NextTextFile(chains[c].files, chains[c].k)]]
     /\ trace' = <<>>
     /\ tvClicks' = <<>>
     /\ UNCHANGED <<state, contentsDB, subscribers, tvData, tvSelected, tvExpanded, tvRendered, output>>

\* ... or the loop is over and handleFileSelect dispatches updateStats()
SaveDoneImportEnd ==
  /\ UNCHANGED <<userEvents, heap>>
  /\ saveQueue # <<>>
  /\ LET c == Head(saveQueue).chain
         act == [kind |-> "updateStats"]
     IN
     /\ chains[c].proc = "import"
     /\ NextTextFile(chains[c].files, chains[c].k) = 0
     /\ metaDB' = <<Head(saveQueue).meta>>
     /\ Commit(c, act, Reduce(act, state), <<>>, TVNow, Tail(saveQueue))
     /\ chains' = [chains EXCEPT ![c] = Saving("once", <<>>, 0)]
     /\ UNCHANGED <<contentsDB, subscribers>>

\* file.text() / parseSpreadsheetFile / parsePDFFile resolves; setFileContents is dispatched
ExtractDone(c) ==
  /\ UNCHANGED <<userEvents, heap>>
  /\ ~IsIdle(c)
  /\ chains[c].pc = "extract"
  /\ LET file == chains[c].files[chains[c].k]
         act == [kind |-> "setFileContents", path |-> file.path, content |-> file.text]
     IN chains' = [chains EXCEPT ![c] = Suspended("import", act, chains[c].files, chains[c].k)]
  /\ trace' = <<>>
  /\ tvClicks' = <<>>
  /\ UNCHANGED <<state, metaDB, contentsDB, subscribers, saveQueue,
                 tvData, tvSelected, tvExpanded, tvRendered, output>>

\* file.text() / parseSpreadsheetFile / parsePDFFile rejects: the await at lines
\* 172-178 throws, nothing catches it and handleFileSelect ends there
ExtractFails(c) ==
  /\ UNCHANGED <<userEvents, heap>>
  /\ ~IsIdle(c)
  /\ chains[c].pc = "extract"
  /\ chains' = [chains EXCEPT ![c] = Idle]
  /\ trace' = <<[ev |-> "reject", chain |-> c, path |-> chains[c].files[chains[c].k].path,
                 left |-> NextTextFile(chains[c].files, chains[c].k) # 0]>>
  /\ tvClicks' = <<>>
  /\ UNCHANGED <<state, metaDB, contentsDB, subscribers, saveQueue,
                 tvData, tvSelected, tvExpanded, tvRendered, output>>

\* the rows of the tree view a click can land on
Rows == 1..Len(tvRendered)

\* a click on a checkbox: _handleClick, _handleCheckboxClick, the 'selection-changed' handler
CheckboxClick(r) ==
  LET i == tvRendered[r].node
      sel == handleCheckboxClick(tvData, i, tvSelected)
      act == [kind |-> "setSelectedPaths", selectedPaths |-> sel]
      c == FreeSlot
  IN
  /\ UserEvent
  /\ tvRendered[r].checkbox
  /\ HasFreeSlot
  /\ Commit(c, act, Reduce(act, state), <<>>, [TVNow EXCEPT !.sel = sel], saveQueue)
  /\ chains' = [chains EXCEPT ![c] = Saving("thenStats", <<>>, 0)]
  /\ UNCHANGED <<metaDB, contentsDB, subscribers>>

\* a click on a directory row: _handleClick, _toggleExpanded, the 'expansion-changed' handler
ExpandClick(r) ==
  LET i == tvRendered[r].node
      exp == toggleExpanded(tvExpanded, tvData[i].path)
      act == [kind |-> "setExpandedNodes", expandedPaths |-> exp]
      c == FreeSlot
  IN
  /\ UserEvent
  /\ tvData[i].isDir
  /\ HasFreeSlot
  /\ Commit(c, act, Reduce(act, state), <<>>, [TVNow EXCEPT !.exp = exp], saveQueue)
  /\ chains' = [chains EXCEPT ![c] = Saving("once", <<>>, 0)]
  /\ UNCHANGED <<metaDB, contentsDB, subscribers>>

\* a walk that visits the children of the root only
EligiblePathsOfRoot(tree) ==
  IF tree = NoRoot THEN <<>>
  ELSE LET hit == SelectSeq(Children(tree, 1),
                            LAMBDA j : ~tree[j].isDir /\ tree[j].isTextFile)
       IN [k \in 1..Len(hit) |-> tree[hit[k]].path]

\* walk(state.root, fn) collecting the eligible file paths
EligiblePaths(tree) == IF tree = NoRoot THEN <<>> ELSE EligiblePathsOn(tree, 1)

\* selectAll()
SelectAll ==
  LET st == getState(state)
      act == [kind |-> "bulkSelectPaths", pathsToSelect |-> EligiblePaths(st.root),
              pathsToDeselect |-> <<>>]
      c == FreeSlot
  IN
  /\ UserEvent
  /\ st.root # NoRoot
  /\ HasFreeSlot
  /\ Commit(c, act, Reduce(act, state), <<getStateEvent>>, TVNow, saveQueue)
  /\ chains' = [chains EXCEPT ![c] = Saving("thenStats", <<>>, 0)]
  /\ UNCHANGED <<metaDB, contentsDB, subscribers>>

\* deselectAll()
DeselectAll ==
  LET st == getState(state)
      act == [kind |-> "bulkSelectPaths", pathsToSelect |-> <<>>,
              pathsToDeselect |-> EligiblePaths(st.root)]
      c == FreeSlot
  IN
  /\ UserEvent
  /\ st.root # NoRoot
  /\ HasFreeSlot
  /\ Commit(c, act, Reduce(act, state), <<getStateEvent>>, TVNow, saveQueue)
  /\ chains' = [chains EXCEPT ![c] = Saving("thenStats", <<>>, 0)]
  /\ UNCHANGED <<metaDB, contentsDB, subscribers>>

\* walk(state.root, fn) collecting the directory paths
DirPaths(tree) ==
  IF tree = NoRoot THEN <<>>
  ELSE LET hit == SelectSeq(Walk(tree, 1), LAMBDA j : tree[j].isDir)
       IN [k \in 1..Len(hit) |-> tree[hit[k]].path]

\* expandAll()
ExpandAll ==
  LET st == getState(state)
      act == [kind |-> "bulkSetExpanded", pathsToExpand |-> DirPaths(st.root),
              pathsToCollapse |-> <<>>]
      c == FreeSlot
  IN
  /\ UserEvent
  /\ st.root # NoRoot
  /\ HasFreeSlot
  /\ Commit(c, act, Reduce(act, state), <<getStateEvent>>, TVNow, saveQueue)
  /\ chains' = [chains EXCEPT ![c] = Saving("once", <<>>, 0)]
  /\ UNCHANGED <<metaDB, contentsDB, subscribers>>

\* collapseAll()
CollapseAll ==
  LET st == getState(state)
      act == [kind |-> "bulkSetExpanded", pathsToExpand |-> <<>>,
              pathsToCollapse |-> DirPaths(st.root)]
      c == FreeSlot
  IN
  /\ UserEvent
  /\ st.root # NoRoot
  /\ HasFreeSlot
  /\ Commit(c, act, Reduce(act, state), <<getStateEvent>>, TVNow, saveQueue)
  /\ chains' = [chains EXCEPT ![c] = Saving("once", <<>>, 0)]
  /\ UNCHANGED <<metaDB, contentsDB, subscribers>>

\* clearAll(): dispatch(actions.reset()) up to the await of contentsDB.keys()
ClearAll ==
  LET act == [kind |-> "reset"]
      c == FreeSlot
  IN
  /\ UserEvent
  /\ HasFreeSlot
  /\ chains' = [chains EXCEPT ![c] = [proc |-> "once", pc |-> "keys", act |-> act,
                                      draft |-> Reduce(act, state),
                                      held |-> DOMAIN contentsDB]]
  /\ trace' = <<>>
  /\ tvClicks' = <<>>
  /\ UNCHANGED <<state, metaDB, contentsDB, subscribers, saveQueue,
                 tvData, tvSelected, tvExpanded, tvRendered, output>>

\* the page is loaded again: main.js's DOMContentLoaded handler, Store.getInstance,
\* Store._init; what the old page had in flight is gone
Reload ==
  LET st == storeInit(metaDB, contentsDB)
      fresh == [data |-> NoRoot, sel |-> <<>>, exp |-> {}, out |-> NoOutput]
  IN
  /\ UserEvent
  /\ state' = st
  /\ subscribers' = <<"viewer">>
  /\ chains' = [c \in Chain |-> Idle]
  /\ saveQueue' = <<>>
  /\ SetTreeView(IF st.root # NoRoot THEN handleStateChange(st, fresh) ELSE fresh)
  /\ tvClicks' = <<>>
  /\ trace' = <<[ev |-> "init", st |-> st]>>
  /\ UNCHANGED <<metaDB, contentsDB>>

-----------------------------------------------------------------------------
(* The application: index.html loading main.js and tree-view.js *)

Init ==
  /\ state = initialState
  /\ metaDB = <<>>
  /\ contentsDB = EmptyMap
  /\ subscribers = <<"viewer">>
  /\ chains = [c \in Chain |-> Idle]
  /\ saveQueue = <<>>
  /\ tvData = NoRoot
  /\ tvSelected = <<>>
  /\ tvExpanded = {}
  /\ tvRendered = <<>>
  /\ tvClicks = <<>>
  /\ output = NoOutput
  /\ trace = <<>>
  /\ userEvents = 0
  /\ heap = NoHeap

Next ==
  \/ \E d \in Dirs : ChooseDirectory(d)
  \/ \E c \in Chain : ExtractDone(c)
  \/ \E c \in Chain : ExtractFails(c)
  \/ \E c \in Chain : ContentWriteDone(c)
  \/ SaveDoneImportNext
  \/ SaveDoneImportEnd
  \/ SaveDoneThenStats
  \/ SaveDoneLast
  \/ \E r \in Rows : CheckboxClick(r)
  \/ \E r \in Rows : ExpandClick(r)
  \/ SelectAll
  \/ DeselectAll
  \/ ExpandAll
  \/ CollapseAll
  \/ ClearAll
  \/ \E c \in Chain : ResetKeysNone(c)
  \/ \E c \in Chain : ResetKeysSome(c)
  \/ \E c \in Chain : ResetRemoveNext(c)
  \/ \E c \in Chain : ResetRemoveLast(c)
  \/ Reload

Spec == Init /\ [][Next]_vars

-----------------------------------------------------------------------------
(* The single-file variant of the viewer: app.js *)

\* computeStateForNode(node): { totalFiles, selectedFiles }
RECURSIVE computeStateForNode(_, _, _)
computeStateForNode(tree, i, sel) ==
  LET node == tree[i] IN
  IF ~node.isDir
    THEN IF node.isTextFile /\ SetHas(sel, node.path)
           THEN [totalFiles |-> 1, selectedFiles |-> 1]
           ELSE [totalFiles |-> IF node.isTextFile THEN 1 ELSE 0, selectedFiles |-> 0]
    ELSE LET cs == Children(tree, i)
             rs == [k \in 1..Len(cs) |-> computeStateForNode(tree, cs[k], sel)]
             Sum[k \in 0..Len(cs)] ==
               IF k = 0 THEN [totalFiles |-> 0, selectedFiles |-> 0]
               ELSE [totalFiles |-> Sum[k - 1].totalFiles + rs[k].totalFiles,
                     selectedFiles |-> Sum[k - 1].selectedFiles + rs[k].selectedFiles]
         IN Sum[Len(cs)]

\* computeSelectionStates(state)[node.path]
selectionMapEntry(tree, i, sel) ==
  LET node == tree[i]
      r == computeStateForNode(tree, i, sel)
  IN IF ~node.isDir
       THEN [checked |-> node.isTextFile /\ SetHas(sel, node.path), indeterminate |-> FALSE]
     ELSE IF r.totalFiles > 0 /\ r.selectedFiles = r.totalFiles
       THEN [checked |-> TRUE, indeterminate |-> FALSE]
     ELSE IF r.selectedFiles > 0 /\ r.selectedFiles < r.totalFiles
       THEN [checked |-> FALSE, indeterminate |-> TRUE]
     ELSE [checked |-> FALSE, indeterminate |-> FALSE]

\* countFiles(node, selectedPaths)
countFiles(tree, i, sel) ==
  LET c == CountOver(tree, Walk(tree, i), sel)
  IN [totalFiles |-> c.total, selectedFiles |-> c.selected]

\* toggleNodeSelection(node): the lists handed to bulkSelectPaths
toggleNodeSelectionLists(tree, i, sel) ==
  LET node == tree[i] IN
  IF node.isDir
    THEN LET c == countFiles(tree, i, sel)
             isFullySelected == c.totalFiles > 0 /\ c.selectedFiles = c.totalFiles
         IN IF isFullySelected
              THEN [pathsToSelect |-> <<>>, pathsToDeselect |-> EligiblePathsOn(tree, i)]
              ELSE [pathsToSelect |-> EligiblePathsOn(tree, i), pathsToDeselect |-> <<>>]
    ELSE IF SetHas(sel, node.path)
           THEN [pathsToSelect |-> <<>>, pathsToDeselect |-> <<node.path>>]
           ELSE [pathsToSelect |-> <<node.path>>, pathsToDeselect |-> <<>>]

\* toggleNodeSelection(node): the state after its two (synchronous) dispatches
toggleNodeSelection(st, i) ==
  LET l == toggleNodeSelectionLists(st.root, i, st.selectedPaths)
  IN updateStats(bulkSelectPaths(st, l.pathsToSelect, l.pathsToDeselect))

-----------------------------------------------------------------------------
(* The tree view on its own: its properties are set and its rows are clicked *)

TreeFiles ==
  <<File(<<"r", "a.txt">>, TRUE, <<1, 2, 3, 4, 5>>),
    File(<<"r", "d", "c.txt">>, TRUE, <<1, 10>>),
    File(<<"r", "d", "e.dat">>, FALSE, <<0>>),
    File(<<"r", "d", "s", "f.txt">>, TRUE, <<3>>)>>

\* the elements of s at the indices in S, in order
Pick(s, S) == LET idx == SelectSeq([j \in 1..Len(s) |-> j], LAMBDA j : j \in S)
              IN [k \in 1..Len(idx) |-> s[idx[k]]]

FileLists ==
  {Pick(TreeFiles, S) : S \in {T \in SUBSET (1..Len(TreeFiles)) :
                                 Cardinality(T) \in 1..MaxFiles}}

TreePaths == [k \in 1..Len(TreeFiles) |-> TreeFiles[k].path]

InitTree ==
  /\ state = initialState
  /\ metaDB = <<>>
  /\ contentsDB = EmptyMap
  /\ subscribers = <<>>
  /\ chains = [c \in Chain |-> Idle]
  /\ saveQueue = <<>>
  /\ \E files \in FileLists : tvData = buildFileTree(files)
  /\ \E S \in SUBSET (1..Len(TreePaths)) : tvSelected = Pick(TreePaths, S)
  /\ tvExpanded = {}
  /\ tvRendered = render(tvData, tvSelected, tvExpanded)
  /\ tvClicks = <<>>
  /\ output = NoOutput
  /\ trace = <<>>
  /\ userEvents = 0
  /\ heap = NoHeap

\* a click on a checkbox with nobody listening: _handleClick, _handleCheckboxClick
TreeCheckboxClick(r) ==
  LET i == tvRendered[r].node
      sel == handleCheckboxClick(tvData, i, tvSelected)
      click == [node |-> i, before |-> tvSelected]
  IN
  /\ tvRendered[r].checkbox
  /\ tvSelected' = sel
  /\ tvRendered' = render(tvData, sel, tvExpanded)
  /\ tvClicks' = IF tvClicks = <<>> THEN <<click>> ELSE <<Last(tvClicks), click>>
  /\ UNCHANGED <<storeVars, tvData, tvExpanded, output, trace, userEvents, heap>>

\* a click on a directory row with nobody listening: _handleClick, _toggleExpanded
TreeExpandClick(r) ==
  LET i == tvRendered[r].node
      exp == toggleExpanded(tvExpanded, tvData[i].path)
  IN
  /\ tvData[i].isDir
  /\ tvExpanded' = exp
  /\ tvRendered' = render(tvData, tvSelected, exp)
  /\ tvClicks' = <<>>
  /\ UNCHANGED <<storeVars, tvData, tvSelected, output, trace, userEvents, heap>>

NextTree ==
  \/ \E r \in Rows : TreeCheckboxClick(r)
  \/ \E r \in Rows : TreeExpandClick(r)

SpecTree == InitTree /\ [][NextTree]_vars


-----------------------------------------------------------------------------
(* The store on its own: callers subscribe, read and dispatch the actions *)

Callbacks == {"cb1", "cb2"}

PathP == <<"p">>

PathX == <<"p", "x.txt">>

PathY == <<"p", "y.txt">>

\* the actions a caller dispatches that resolve without awaiting storage
ApiActions ==
  {[kind |-> "setRoot", root |-> buildFileTree(SelectSeq(DirFiles("p"), LAMBDA f : ~Ignored(f)))]}
  \cup {[kind |-> "bulkSelectPaths", pathsToSelect |-> l[1], pathsToDeselect |-> l[2]] :
          l \in {<<<<PathX>>, <<>> >>, <<<<PathX, PathY>>, <<PathY>> >>,
                  <<<<PathX>>, <<PathX, PathY>> >>}}
  \cup {[kind |-> "toggleSelected", path |-> PathX, selected |-> b] : b \in BOOLEAN}
  \cup {[kind |-> "toggleExpanded", path |-> PathP]}
  \cup {[kind |-> "setExpanded", path |-> PathP, expand |-> TRUE]}
  \cup {[kind |-> "updateStats"]}
  \cup {[kind |-> "bulkSetExpanded", pathsToExpand |-> <<PathP>>, pathsToCollapse |-> <<PathP>>]}

ApiContents == {<<PathX, <<1, 2, 3, 4, 5>> >>, <<PathY, <<>> >>}

InitStore ==
  /\ state = initialState
  /\ metaDB = <<>>
  /\ contentsDB = EmptyMap
  /\ subscribers = <<>>
  /\ chains = [c \in Chain |-> Idle]
  /\ saveQueue = <<>>
  /\ tvData = NoRoot
  /\ tvSelected = <<>>
  /\ tvExpanded = {}
  /\ tvRendered = <<>>
  /\ tvClicks = <<>>
  /\ output = NoOutput
  /\ trace = <<>>
  /\ userEvents = 0
  /\ heap = NoHeap

\* store.subscribe(cb)
Subscribe(cb) ==
  /\ UserEvent
  /\ ~SetHas(subscribers, cb)
  /\ subscribers' = SetAdd(subscribers, cb)
  /\ trace' = <<>>
  /\ UNCHANGED <<state, metaDB, contentsDB, chains, saveQueue, tvVars>>

\* the function subscribe(cb) returned is called
Unsubscribe(cb) ==
  /\ UserEvent
  /\ SetHas(subscribers, cb)
  /\ subscribers' = SetDelete(subscribers, cb)
  /\ trace' = <<>>
  /\ UNCHANGED <<state, metaDB, contentsDB, chains, saveQueue, tvVars>>

\* store.getState()
GetState ==
  /\ UserEvent
  /\ trace' = <<getStateEvent>>
  /\ UNCHANGED <<storeVars, tvVars>>

\* store.dispatch(action) of an action that resolves at once
Dispatch(act) ==
  LET c == FreeSlot IN
  /\ UserEvent
  /\ HasFreeSlot
  /\ Commit(c, act, Reduce(act, state), <<>>, TVNow, saveQueue)
  /\ chains' = [chains EXCEPT ![c] = Saving("once", <<>>, 0)]
  /\ UNCHANGED <<metaDB, contentsDB, subscribers>>

\* store.dispatch(actions.setFileContents(path, content))
DispatchSetFileContents(path, content) ==
  LET act == [kind |-> "setFileContents", path |-> path, content |-> content]
      c == FreeSlot
  IN
  /\ UserEvent
  /\ HasFreeSlot
  /\ chains' = [chains EXCEPT ![c] = Suspended("once", act, <<>>, 0)]
  /\ trace' = <<>>
  /\ tvClicks' = <<>>
  /\ UNCHANGED <<state, metaDB, contentsDB, subscribers, saveQueue,
                 tvData, tvSelected, tvExpanded, tvRendered, output>>

NextStore ==
  \/ \E cb \in Callbacks : Subscribe(cb)
  \/ \E cb \in Callbacks : Unsubscribe(cb)
  \/ GetState
  \/ \E act \in ApiActions : Dispatch(act)
  \/ \E pc \in ApiContents : DispatchSetFileContents(pc[1], pc[2])
  \/ ClearAll
  \/ \E c \in Chain : ContentWriteDone(c)
  \/ \E c \in Chain : ResetKeysNone(c)
  \/ \E c \in Chain : ResetKeysSome(c)
  \/ \E c \in Chain : ResetRemoveNext(c)
  \/ \E c \in Chain : ResetRemoveLast(c)
  \/ SaveDoneLast

SpecStore == InitStore /\ [][NextStore]_vars

-----------------------------------------------------------------------------
(* The application at rest in a stored state: the page shows the state, the  *)
(* caller dispatches single actions, the page is loaded again                *)

OpsDir == <<"r", "d">>

OpsFile == <<"r", "a.txt">>

OpsBinary == <<"r", "d", "e.dat">>

\* the file lists tried: the largest ones the bound allows
OpsFileLists == {files \in FileLists : \A other \in FileLists : Len(other) <= Len(files)}

\* the selections tried, in insertion order: nothing, one file, files of two
\* directories, a file with a directory path, every path of the universe
OpsSelections ==
  {<<>>,
   <<OpsFile>>,
   <<<<"r", "d", "c.txt">>, OpsFile>>,
   <<<<"r", "d", "s", "f.txt">>, <<"r", "d", "c.txt">>>>,
   <<OpsFile, OpsDir>>,
   Append(TreePaths, OpsDir)}

OpsExpanded == {{}, {<<"r">>, OpsDir}}

\* the contents tried: none, those of all text files, the first text file's with
\* an empty text for the others
OpsContents(files) ==
  LET texts == SelectSeq(files, LAMBDA f : f.isText)
      paths == {texts[k].path : k \in 1..Len(texts)}
      textOf(q) == (CHOOSE k \in 1..Len(texts) : texts[k].path = q)
  IN {EmptyMap,
      [q \in paths |-> texts[textOf(q)].text],
      [q \in paths |-> IF textOf(q) = 1 THEN texts[1].text ELSE <<>>]}

OpsStates ==
  UNION {{[root |-> buildFileTree(files), selectedPaths |-> sel, fileContents |-> m,
           expandedNodes |-> exp, stats |-> [selectedCount |-> 0, totalTokens |-> 0]] :
            sel \in OpsSelections, m \in OpsContents(files), exp \in OpsExpanded} :
         files \in OpsFileLists}

OpsActions ==
  {[kind |-> "updateStats"]}
  \cup {[kind |-> "toggleSelected", path |-> q, selected |-> b] :
          q \in {OpsFile, OpsDir, OpsBinary}, b \in BOOLEAN}


InitOps ==
  \E st \in OpsStates :
    /\ state = st
    /\ metaDB = <<Projection(st)>>
    /\ contentsDB = st.fileContents
    /\ subscribers = <<"viewer">>
    /\ chains = [c \in Chain |-> Idle]
    /\ saveQueue = <<>>
    /\ tvData = st.root
    /\ tvSelected = NewSet(st.selectedPaths)
    /\ tvExpanded = st.expandedNodes
    /\ tvRendered = render(tvData, tvSelected, tvExpanded)
    /\ tvClicks = <<>>
    /\ output = updateUI(st)
    /\ trace = <<>>
    /\ userEvents = 0
    /\ heap = NoHeap

\* the caller's steps are counted against MaxOps, writes complete freely
OpsDispatch == userEvents < MaxOps /\ \E act \in OpsActions : Dispatch(act)

OpsReload == userEvents < MaxOps /\ Reload

OpsClearAll == userEvents < MaxOps /\ ClearAll

OpsDeselectAll == userEvents < MaxOps /\ DeselectAll

\* file lists of which the ignore filter keeps nothing: no file at all, an
\* ignored file name, files below an ignored directory
EmptyPicks ==
  {<<>>,
   <<File(<<"o", "i.png">>, FALSE, <<9>>)>>,
   <<File(<<"o", "node_modules", "m.txt">>, TRUE, <<1, 2>>),
     File(<<"o", "i.png">>, FALSE, <<9>>)>>}

\* an early return that is never taken
NothingLeftNever(files) == FALSE

\* if (!files.length) return;
NothingLeft(files) == files = <<>>

\* handleFileSelect(raw) up to its first await: the filter, the early return,
\* and for a list that has files left the tree and the dispatch of setRoot
ChoosePick(raw) ==
  LET files == SelectSeq(raw, LAMBDA f : ~Ignored(f))
      act == [kind |-> "setRoot", root |-> buildFileTree(files)]
      c == FreeSlot
      chosen == <<[ev |-> "chosen", kept |-> Len(files)]>>
  IN
  /\ UserEvent
  /\ IF NothingLeft(files)
       THEN /\ trace' = chosen
            /\ tvClicks' = <<>>
            /\ UNCHANGED <<state, metaDB, contentsDB, subscribers, chains, saveQueue,
                           tvData, tvSelected, tvExpanded, tvRendered, output>>
       ELSE /\ HasFreeSlot
            /\ Commit(c, act, Reduce(act, state), chosen, TVNow, saveQueue)
            /\ chains' = [chains EXCEPT ![c] = Saving("import", files, 0)]
            /\ UNCHANGED <<metaDB, contentsDB, subscribers>>

OpsChoose == userEvents < MaxOps /\ \E raw \in EmptyPicks : ChoosePick(raw)

NextOps ==
  \/ OpsDispatch
  \/ SaveDoneLast
  \/ OpsReload
  \/ OpsClearAll
  \/ OpsDeselectAll
  \/ OpsChoose
  \/ SaveDoneThenStats
  \/ \E c \in Chain : ResetKeysNone(c)
  \/ \E c \in Chain : ResetKeysSome(c)
  \/ \E c \in Chain : ResetRemoveNext(c)
  \/ \E c \in Chain : ResetRemoveLast(c)

SpecOps == InitOps /\ [][NextOps]_vars

-----------------------------------------------------------------------------
(* The viewer over a stored session: rows are clicked and the page is reloaded *)

NextClick ==
  \/ userEvents < MaxOps /\ \E r \in Rows : CheckboxClick(r)
  \/ userEvents < MaxOps /\ \E r \in Rows : ExpandClick(r)
  \/ userEvents < MaxOps /\ Reload
  \/ SaveDoneThenStats
  \/ SaveDoneLast

SpecClick == InitOps /\ [][NextClick]_vars

-----------------------------------------------------------------------------
(* Startup: a page that has just been opened over what the databases hold *)

\* this.state of the Store constructor: null until _init() has run
NullState == [null |-> TRUE]

\* what can reject in _init(): the metadata read, or a content read of a selected path
LoadFailures == {"metadata", "contents"}

InitStart ==
  \E st \in OpsStates, saved \in BOOLEAN :
    /\ state = NullState
    /\ metaDB = IF saved THEN <<Projection(st)>> ELSE <<>>
    /\ contentsDB = st.fileContents
    /\ subscribers = <<>>
    /\ chains = [c \in Chain |-> Idle]
    /\ saveQueue = <<>>
    /\ tvData = NoRoot
    /\ tvSelected = <<>>
    /\ tvExpanded = {}
    /\ tvRendered = <<>>
    /\ tvClicks = <<>>
    /\ output = NoOutput
    /\ trace = <<>>
    /\ userEvents = 0
    /\ heap = NoHeap

\* DOMContentLoaded: Store.getInstance() resolves and the viewer is set up
Start == state = NullState /\ Reload

\* DOMContentLoaded: a read of _init() rejects; getInstance() rejects and the
\* handler ends at line 12 with the store left as the constructor made it
StartFails(kind) ==
  /\ state = NullState
  /\ trace = <<>>
  /\ kind = "contents" => metaDB # <<>> /\ metaDB[1].selectedPaths # <<>>
  /\ trace' = <<[ev |-> "initFailed", kind |-> kind]>>
  /\ UNCHANGED <<state, metaDB, contentsDB, subscribers, chains, saveQueue, userEvents, heap,
                 tvData, tvSelected, tvExpanded, tvRendered, tvClicks, output>>

NextStart ==
  \/ Start
  \/ \E kind \in LoadFailures : StartFails(kind)

SpecStart == InitStart /\ [][NextStart]_vars

-----------------------------------------------------------------------------
(* Store.getInstance(): heap lists the Store objects made so far with the
   number of _init() runs of each; the module's `instance` is the latest one,
   null while heap is empty *)

\* a caller calls Store.getInstance(): the first one makes the Store and awaits
\* _init(); one that finds `instance` set is handed it at once
GetInstanceCall ==
  /\ userEvents < MaxUserEvents
  /\ userEvents' = userEvents + 1
  /\ IF heap = NoHeap
       THEN /\ HasFreeSlot
            /\ heap' = <<[inits |-> 1]>>
            /\ chains' = [chains EXCEPT ![FreeSlot] =
                            [proc |-> "getInstance", pc |-> "meta", store |-> 1]]
            /\ trace' = <<>>
       ELSE /\ trace' = <<[ev |-> "resolved", store |-> Len(heap), st |-> state]>>
            /\ UNCHANGED <<heap, chains>>
  /\ UNCHANGED <<state, metaDB, contentsDB, subscribers, saveQueue, tvVars>>

\* _init(): loadAllMetadata() resolves and loadAllContents() starts
InitMetaLoaded(c) ==
  /\ ~IsIdle(c)
  /\ chains[c].pc = "meta"
  /\ chains' = [chains EXCEPT ![c].pc = "contents"]
  /\ trace' = <<>>
  /\ UNCHANGED <<state, metaDB, contentsDB, subscribers, saveQueue, tvVars, userEvents, heap>>

\* _init(): loadAllContents() resolves, this.state is set, getInstance() returns
InitContentsLoaded(c) ==
  /\ ~IsIdle(c)
  /\ chains[c].pc = "contents"
  /\ state' = storeInit(metaDB, contentsDB)
  /\ chains' = [chains EXCEPT ![c] = Idle]
  /\ trace' = <<[ev |-> "resolved", store |-> chains[c].store, st |-> state']>>
  /\ UNCHANGED <<metaDB, contentsDB, subscribers, saveQueue, tvVars, userEvents, heap>>

NextInstance ==
  \/ GetInstanceCall
  \/ \E c \in Chain : InitMetaLoaded(c)
  \/ \E c \in Chain : InitContentsLoaded(c)

SpecInstance == InitStart /\ [][NextInstance]_vars

-----------------------------------------------------------------------------
(* Snapshots: the state objects of the store by identity. heap.objs holds the
   value of every object made so far, heap.cur is the object this.state refers
   to, heap.held lists the references callers hold: the object, who got it,
   and the value it had when it was obtained or last changed by its holder *)

SnapActions ==
  {[kind |-> "setRoot", root |-> buildFileTree(SelectSeq(DirFiles("p"), LAMBDA f : ~Ignored(f)))],
   [kind |-> "toggleSelected", path |-> PathX, selected |-> TRUE],
   [kind |-> "toggleExpanded", path |-> PathP]}

\* structuredClone(objs[ref]): a new object with an equal value; its reference is the new length
structuredClone(objs, ref) == Append(objs, objs[ref])

\* a getState() that returns this.state itself
heapGetStateThis(h) == [objs |-> h.objs, ref |-> h.cur]

\* getState(): return structuredClone(this.state)
heapGetState(h) == [objs |-> structuredClone(h.objs, h.cur), ref |-> Len(h.objs) + 1]

\* const draft = structuredClone(this.state); actionFn(draft) up to its first await
heapDraft(h, act) ==
  LET cloned == structuredClone(h.objs, h.cur)
      draft == Len(cloned)
  IN [objs |-> [cloned EXCEPT ![draft] = Reduce(act, cloned[draft])], ref |-> draft]

\* this.state = nextState; _notify(): every subscriber is handed this.state
heapCommit(h, objs, draft, subs) ==
  [objs |-> objs, cur |-> draft,
   held |-> h.held \o [k \in 1..Len(subs) |-> [ref |-> draft, was |-> objs[draft], by |-> subs[k]]]]

InitSnap ==
  /\ state = initialState
  /\ metaDB = <<>>
  /\ contentsDB = EmptyMap
  /\ subscribers \in {<<>>, <<"cb1">>}
  /\ chains = [c \in Chain |-> Idle]
  /\ saveQueue = <<>>
  /\ tvData = NoRoot
  /\ tvSelected = <<>>
  /\ tvExpanded = {}
  /\ tvRendered = <<>>
  /\ tvClicks = <<>>
  /\ output = NoOutput
  /\ trace = <<>>
  /\ userEvents = 0
  /\ heap = [objs |-> <<initialState>>, cur |-> 1, held |-> <<>>]

\* a caller calls store.getState() and keeps what it returns
SnapGetState ==
  LET r == heapGetState(heap) IN
  /\ userEvents < MaxUserEvents
  /\ userEvents' = userEvents + 1
  /\ heap' = [heap EXCEPT !.objs = r.objs,
                          !.held = Append(@, [ref |-> r.ref, was |-> r.objs[r.ref],
                                              by |-> "getState"])]
  /\ trace' = <<[ev |-> "getState", st |-> r.objs[r.ref]]>>
  /\ UNCHANGED <<storeVars, tvVars>>

\* the caller adds a path to the selectedPaths or to the expandedNodes of the
\* value getState() returned to it
SnapMutate(k, field) ==
  LET ref == heap.held[k].ref
      old == heap.objs[ref]
      new == IF field = "selectedPaths"
               THEN [old EXCEPT !.selectedPaths = SetAdd(@, PathY)]
               ELSE [old EXCEPT !.expandedNodes = @ \cup {PathX}]
  IN
  /\ heap.held[k].by = "getState"
  /\ new # old
  /\ userEvents < MaxUserEvents
  /\ userEvents' = userEvents + 1
  /\ heap' = [heap EXCEPT !.objs[ref] = new, !.held[k].was = new]
  /\ trace' = <<[ev |-> "mutate", held |-> k]>>
  /\ UNCHANGED <<storeVars, tvVars>>

\* store.dispatch(action) of an action that resolves at once
SnapDispatch(act) ==
  LET c == FreeSlot
      d == heapDraft(heap, act)
  IN
  /\ userEvents < MaxUserEvents
  /\ userEvents' = userEvents + 1
  /\ HasFreeSlot
  /\ Commit(c, act, d.objs[d.ref], <<>>, TVNow, saveQueue)
  /\ chains' = [chains EXCEPT ![c] = Saving("once", <<>>, 0)]
  /\ heap' = heapCommit(heap, d.objs, d.ref, subscribers)
  /\ UNCHANGED <<metaDB, contentsDB, subscribers>>

\* store.dispatch(actions.setFileContents(path, content)) up to the await of setItem
SnapDispatchSetFileContents(path, content) ==
  LET act == [kind |-> "setFileContents", path |-> path, content |-> content]
      c == FreeSlot
      d == heapDraft(heap, act)
  IN
  /\ userEvents < MaxUserEvents
  /\ userEvents' = userEvents + 1
  /\ HasFreeSlot
  /\ chains' = [chains EXCEPT ![c] =
                  [proc |-> "once", pc |-> "write", act |-> act, draft |-> d.objs[d.ref],
                   files |-> <<>>, k |-> 0, ref |-> d.ref]]
  /\ heap' = [heap EXCEPT !.objs = d.objs]
  /\ trace' = <<>>
  /\ tvClicks' = <<>>
  /\ UNCHANGED <<state, metaDB, contentsDB, subscribers, saveQueue,
                 tvData, tvSelected, tvExpanded, tvRendered, output>>

\* contentsDB.setItem completes; the draft becomes this.state and is handed out
SnapContentWriteDone(c) ==
  /\ UNCHANGED userEvents
  /\ ~IsIdle(c)
  /\ chains[c].pc = "write"
  /\ contentsDB' = Put(contentsDB, chains[c].act.path, chains[c].act.content)
  /\ Commit(c, chains[c].act, heap.objs[chains[c].ref], <<>>, TVNow, saveQueue)
  /\ chains' = [chains EXCEPT ![c] = Saving("once", <<>>, 0)]
  /\ heap' = heapCommit(heap, heap.objs, chains[c].ref, subscribers)
  /\ UNCHANGED <<metaDB, subscribers>>

NextSnap ==
  \/ \E cb \in Callbacks : Subscribe(cb)
  \/ SnapGetState
  \/ \E k \in DOMAIN heap.held, field \in {"selectedPaths", "expandedNodes"} : SnapMutate(k, field)
  \/ \E act \in SnapActions : SnapDispatch(act)
  \/ SnapDispatchSetFileContents(PathX, <<1, 2, 3, 4, 5>>)
  \/ \E c \in Chain : SnapContentWriteDone(c)
  \/ SaveDoneLast

SpecSnap == InitSnap /\ [][NextSnap]_vars

-----------------------------------------------------------------------------
(* Properties of the tree view *)

IsPrefix(a, b) == Len(a) <= Len(b) /\ SubSeq(b, 1, Len(a)) = a

DirsOf(tree) == {i \in 1..Len(tree) : tree[i].isDir}

\* the paths of the text files below the directory at i, read off the paths
EligibleUnder(tree, i) ==
  {tree[j].path : j \in {k \in 1..Len(tree) : /\ ~tree[k].isDir
                                              /\ tree[k].isTextFile
                                              /\ IsPrefix(tree[i].path, tree[k].path)}}

\* the selection restricted to the subtree rooted at i
RestrictedTo(tree, i, sel) == {p \in Range(sel) : IsPrefix(tree[i].path, p)}

RowsOf(i) == {r \in Rows : tvRendered[r].node = i}

Shows(r, cs) ==
  /\ tvRendered[r].checked = cs.checked
  /\ tvRendered[r].indeterminate = cs.indeterminate

Partial(tree, i, sel) ==
  LET E == EligibleUnder(tree, i)
      S == E \cap Range(sel)
  IN S # {} /\ S # E

\* C1 (as amended): a directory is checked iff it has at least one eligible
\* descendant file and all of them are selected; it is indeterminate iff the
\* selected eligible descendants are a non-empty proper subset; never both.
\* Both implementations agree and the rendered rows show it.
C1_CheckStateOfDirectory ==
  \A i \in DirsOf(tvData) :
    LET E == EligibleUnder(tvData, i)
        S == E \cap Range(tvSelected)
        cs == computeCheckboxState(tvData, i, tvSelected)
        ms == selectionMapEntry(tvData, i, tvSelected)
    IN /\ cs.checked <=> (E # {} /\ S = E)
       /\ cs.indeterminate <=> (S # {} /\ S # E)
       /\ ~(cs.checked /\ cs.indeterminate)
       /\ ms.checked = cs.checked /\ ms.indeterminate = cs.indeterminate
       /\ \A r \in RowsOf(i) : Shows(r, cs)

\* C1 as stated: a directory is checked iff every eligible descendant file is
\* selected (which a directory without eligible files satisfies vacuously).
C1_AsStated ==
  \A i \in DirsOf(tvData) :
    LET E == EligibleUnder(tvData, i)
        S == E \cap Range(tvSelected)
        cs == computeCheckboxState(tvData, i, tvSelected)
    IN /\ cs.checked <=> (E \subseteq Range(tvSelected))
       /\ cs.indeterminate <=> (S # {} /\ S # E)
       /\ ~(cs.checked /\ cs.indeterminate)

\* a rendered tree showing a checked directory and an indeterminate one
C1_Witness ==
  \E r1, r2 \in Rows :
    /\ tvData[tvRendered[r1].node].isDir /\ tvRendered[r1].checked
    /\ tvData[tvRendered[r2].node].isDir /\ tvRendered[r2].indeterminate

\* C2: a directory without eligible descendant files is neither checked nor
\* indeterminate, whatever the selection holds.
C2_InertDirectory ==
  \A i \in DirsOf(tvData) :
    EligibleUnder(tvData, i) = {} =>
      LET cs == computeCheckboxState(tvData, i, tvSelected)
          ms == selectionMapEntry(tvData, i, tvSelected)
      IN /\ ~cs.checked /\ ~cs.indeterminate
         /\ ~ms.checked /\ ~ms.indeterminate
         /\ \A r \in RowsOf(i) : ~tvRendered[r].checked /\ ~tvRendered[r].indeterminate

\* the checkbox of a directory holding only a non-text file, whose path is in
\* the selection, has been clicked and the directory is on display
C2_Witness ==
  /\ tvClicks # <<>>
  /\ LET i == Last(tvClicks).node
     IN /\ tvData[i].isDir
        /\ EligibleUnder(tvData, i) = {}
        /\ RestrictedTo(tvData, i, tvSelected) # {}
        /\ RowsOf(i) # {}

\* C3: a click on the checkbox of a directory removes every eligible
\* descendant path if the directory was fully checked, and adds every one of
\* them in every other case; the other paths are left as they were.
C3_DirectoryToggle ==
  tvClicks # <<>> =>
    LET c == Last(tvClicks)
        i == c.node
        E == EligibleUnder(tvData, i)
        before == Range(c.before)
        st == [initialState EXCEPT !.root = tvData, !.selectedPaths = c.before]
    IN tvData[i].isDir =>
         /\ (E # {} /\ E \subseteq before) => E \cap Range(tvSelected) = {}
         /\ ~(E # {} /\ E \subseteq before) => E \subseteq Range(tvSelected)
         /\ Range(tvSelected) \ E = before \ E
         /\ Range(toggleNodeSelection(st, i).selectedPaths) = Range(tvSelected)

\* a partially selected directory was clicked and is now checked
C3_Witness ==
  /\ tvClicks # <<>>
  /\ LET c == Last(tvClicks)
     IN /\ tvData[c.node].isDir
        /\ Partial(tvData, c.node, c.before)
        /\ computeCheckboxState(tvData, c.node, tvSelected).checked

\* C4 (as amended): two clicks in a row on the checkbox of a directory that
\* had none or all of its eligible descendants selected leave the selection
\* within its subtree as it was before the first click.
C4_DoubleToggle ==
  (/\ Len(tvClicks) = 2
   /\ tvClicks[1].node = tvClicks[2].node
   /\ tvData[tvClicks[1].node].isDir
   /\ ~Partial(tvData, tvClicks[1].node, tvClicks[1].before))
  => RestrictedTo(tvData, tvClicks[1].node, tvSelected)
       = RestrictedTo(tvData, tvClicks[1].node, tvClicks[1].before)

\* C4 as stated: the same from every starting selection.
C4_AsStated ==
  (/\ Len(tvClicks) = 2
   /\ tvClicks[1].node = tvClicks[2].node
   /\ tvData[tvClicks[1].node].isDir)
  => RestrictedTo(tvData, tvClicks[1].node, tvSelected)
       = RestrictedTo(tvData, tvClicks[1].node, tvClicks[1].before)

\* a directory with eligible files, none of them selected, and a non-text
\* file that is selected, was clicked twice
C4_Witness ==
  /\ Len(tvClicks) = 2
  /\ tvClicks[1].node = tvClicks[2].node
  /\ LET i == tvClicks[1].node
         E == EligibleUnder(tvData, i)
     IN /\ tvData[i].isDir
        /\ E # {}
        /\ E \cap Range(tvClicks[1].before) = {}
        /\ RestrictedTo(tvData, i, tvClicks[1].before) # {}
        /\ E \subseteq Range(tvClicks[2].before)

-----------------------------------------------------------------------------
(* Properties of the store and of the application *)

Replaces(e) == e.ev = "replace"

Awaiting(c) == ~IsIdle(c) /\ chains[c].pc \in {"write", "keys", "remove"}

\* C5: after a dispatch of bulkSelectPaths(toSelect, toDeselect) no path of
\* toDeselect is selected, also not one that is in toSelect as well, and every
\* path that is only in toSelect is selected.
C5_DeselectWins ==
  \A k \in DOMAIN trace :
    (Replaces(trace[k]) /\ trace[k].act.kind = "bulkSelectPaths") =>
      LET act == trace[k].act
          sel == Range(state.selectedPaths)
      IN /\ Range(act.pathsToDeselect) \cap sel = {}
         /\ (Range(act.pathsToSelect) \ Range(act.pathsToDeselect)) \subseteq sel

\* a bulkSelectPaths with a path in both lists and a path only in toSelect
\* has been committed
C5_Witness ==
  \E k \in DOMAIN trace :
    /\ Replaces(trace[k])
    /\ trace[k].act.kind = "bulkSelectPaths"
    /\ Range(trace[k].act.pathsToSelect) \cap Range(trace[k].act.pathsToDeselect) # {}
    /\ Range(trace[k].act.pathsToSelect) \ Range(trace[k].act.pathsToDeselect) # {}
    /\ state.selectedPaths # <<>>

\* C6: when a setRoot has been committed the state holds the new root, no
\* selected path, no expanded node, no file content and zero statistics.
C6_SetRootClears ==
  \A k \in DOMAIN trace :
    (Replaces(trace[k]) /\ trace[k].act.kind = "setRoot") =>
      /\ state.root = trace[k].act.root
      /\ state.selectedPaths = <<>>
      /\ state.expandedNodes = {}
      /\ state.fileContents = EmptyMap
      /\ state.stats = [selectedCount |-> 0, totalTokens |-> 0]

\* C7: a setFileContents dispatched by an import is only ever committed into
\* a state whose root is the tree that import built.
C7_NoStaleCompletion ==
  \A k \in DOMAIN trace :
    (/\ Replaces(trace[k])
     /\ trace[k].act.kind = "setFileContents"
     /\ chains[trace[k].chain].proc = "import")
    => state.root = buildFileTree(chains[trace[k].chain].files)

\* C8: every dispatch commits its action applied to the state that is stored
\* at the time of the commit, so that nothing committed in between is lost.
C8_NoLostUpdate ==
  [][\A k \in DOMAIN trace' :
       Replaces(trace'[k]) => trace'[k].st = Reduce(trace'[k].act, state)]_vars

\* C9: getState() returns the stored state, a subscriber is given the state
\* just stored, and the stored state only changes by a dispatch storing the
\* result of its whole action on its clone; the draft of an action that is
\* awaiting storage is not handed out.
C9_ObserversSeeCommitted ==
  [][/\ \A k \in DOMAIN trace' :
          /\ trace'[k].ev = "getState" => trace'[k].st = state
          /\ trace'[k].ev = "notify" =>
               /\ trace'[k].st = state'
               /\ \E j \in 1..(k - 1) : Replaces(trace'[j])
          /\ Replaces(trace'[k]) =>
               /\ trace'[k].st = state'
               /\ \/ trace'[k].st = Reduce(trace'[k].act, state)
                  \/ /\ Awaiting(trace'[k].chain)
                     /\ trace'[k].st = chains[trace'[k].chain].draft
     /\ state' # state => \E k \in DOMAIN trace' : Replaces(trace'[k])]_vars

\* getState() was called or a subscriber was called while an action is
\* awaiting storage with a draft that differs from the stored state
C9_Witness ==
  /\ \E c \in Chain : Awaiting(c) /\ chains[c].draft # state
  /\ \E k \in DOMAIN trace : trace[k].ev \in {"getState", "notify"}

\* C10: a dispatch replaces the stored state, then calls every subscriber
\* once, in the order of subscription, with the new state, then starts the
\* write of the metadata projection of the new state; nothing else happens
\* in between and no subscriber is called before the replacement.
C10_DispatchOrder ==
  /\ \A k \in DOMAIN trace :
       Replaces(trace[k]) =>
         LET n == Len(subscribers) IN
         /\ trace[k].st = state
         /\ Len(trace) = k + n + 1
         /\ \A j \in 1..n :
              trace[k + j] = [ev |-> "notify", cb |-> subscribers[j], st |-> state]
         /\ trace[k + n + 1].ev = "save"
         /\ trace[k + n + 1].meta = Projection(state)
         /\ \A j \in 1..(k - 1) : trace[j].ev \notin {"notify", "save"}
         /\ saveQueue # <<>>
         /\ Last(saveQueue).meta = Projection(state)
  /\ \A k \in DOMAIN trace :
       trace[k].ev \in {"notify", "save"} => \E j \in 1..(k - 1) : Replaces(trace[j])

\* a dispatch has been committed with two subscribers
C10_Witness ==
  /\ Len(subscribers) = 2
  /\ \E k \in DOMAIN trace : Replaces(trace[k])

-----------------------------------------------------------------------------
(* Properties of the stored state, the statistics and the output pane *)

\* the state Store._init() builds once the projection of st has been saved
Rehydrated(st) == storeInit(<<Projection(st)>>, contentsDB)

SameSession(a, b) ==
  /\ a.root = b.root
  /\ Range(a.selectedPaths) = Range(b.selectedPaths)
  /\ a.expandedNodes = b.expandedNodes

\* C11: saving the projection of a state, loading it and rehydrating gives a
\* state with the same root, the same set of selected paths and the same set
\* of expanded nodes; a page load yields what the last completed save held.
C11_RoundTrip ==
  /\ SameSession(Rehydrated(state), state)
  /\ \A k \in DOMAIN trace :
       (trace[k].ev = "init" /\ metaDB # <<>>) =>
         /\ state = trace[k].st
         /\ state.root = metaDB[1].root
         /\ Range(state.selectedPaths) = Range(metaDB[1].selectedPaths)
         /\ state.expandedNodes = Range(metaDB[1].expandedNodes)

\* the page was loaded over a saved tree with selected paths and expanded nodes
C11_Witness ==
  /\ \E k \in DOMAIN trace : trace[k].ev = "init"
  /\ state.root # NoRoot
  /\ Len(state.selectedPaths) >= 2
  /\ state.expandedNodes # {}

\* the ASCII tree between the delimiters of a folder-structure block
TreePart(block) == SubSeq(block, 3, Len(block) - 2)

\* the node names on the lines of an ASCII tree: the piece before each line feed
LineNames(s) ==
  LET idx == SelectSeq([k \in 1..Len(s) |-> k], LAMBDA k : s[k] = "\n")
  IN [j \in 1..Len(idx) |-> s[idx[j] - 1]]

\* the number of pieces in front of the name on each line: prefixes and connector
LineDepths(s) ==
  LET idx == SelectSeq([k \in 1..Len(s) |-> k], LAMBDA k : s[k] = "\n")
  IN [j \in 1..Len(idx) |-> idx[j] - (IF j = 1 THEN 0 ELSE idx[j - 1]) - 2]

\* the nodes that are selected or have a selected descendant, in tree order
Covered(tree, sel) ==
  SelectSeq(Walk(tree, 1),
            LAMBDA i : \E q \in Range(sel) :
                         /\ IsPrefix(tree[i].path, q)
                         /\ \E j \in 1..Len(tree) : tree[j].path = q)

\* C12: the ASCII tree has a line for a node iff the node's path is selected
\* or a descendant's path is; a directory without a selected descendant is
\* left out with its subtree, and with nothing selected the tree is empty.
C12_TreeLines ==
  state.root # NoRoot =>
    LET tree == state.root
        ascii == TreePart(output.lines[1])
        shown == Covered(tree, state.selectedPaths)
    IN /\ LineNames(ascii) = [k \in 1..Len(shown) |-> tree[shown[k]].name]
       /\ LineDepths(ascii) = [k \in 1..Len(shown) |-> Len(tree[shown[k]].path)]
       /\ (state.selectedPaths = <<>> => ascii = <<>>)

\* after a dispatch the tree shows a directory for a selected file below it and
\* leaves out another directory, none of whose descendants is selected
C12_Witness ==
  /\ \E k \in DOMAIN trace : Replaces(trace[k])
  /\ LET tree == state.root
         shown == Range(Covered(tree, state.selectedPaths))
     IN /\ \E i \in DirsOf(tree) : i # 1 /\ i \in shown /\ ~SetHas(state.selectedPaths, tree[i].path)
        /\ \E i \in DirsOf(tree) : i \notin shown
        /\ TreePart(output.lines[1]) # <<>>

\* the selected paths whose content is held in fileContents, in insertion order
Resolved(st) == SelectSeq(st.selectedPaths, LAMBDA q : q \in DOMAIN st.fileContents)

\* C13: after the folder block the output holds exactly one document block
\* for each selected path whose content is held in fileContents, in the
\* insertion order of selectedPaths, and no other document block.
C13_DocumentBlocks ==
  state.root # NoRoot =>
    Tail(output.lines) =
      [k \in 1..Len(Resolved(state)) |->
         documentBlock(Resolved(state)[k], state.fileContents[Resolved(state)[k]])]

\* C14: the text is the folder-structure block, then the document blocks,
\* consecutive blocks one blank line apart; the folder-structure block is the
\* opening delimiter, the lines of the ASCII tree and the closing delimiter,
\* with no blank line between the last tree line and the closing delimiter.
C14_BlockLayout ==
  LET ascii == generateAsciiTree(state.root, 1, state.selectedPaths, <<>>, TRUE)
      docs == Tail(output.lines)
  IN (state.root # NoRoot /\ ascii # <<>>) =>
       output.text =
         <<"<folder-structure>", "\n">> \o ascii \o <<"</folder-structure>">>
         \o Concat([k \in 1..Len(docs) |-> <<"\n", "\n">> \o docs[k]])

\* the paths of the text files of a tree; none when there is no tree
TextFilePaths(tree) ==
  {tree[j].path : j \in {k \in 1..Len(tree) : ~tree[k].isDir /\ tree[k].isTextFile}}

\* C15: when updateStats commits, stats.selectedCount is the number of
\* selected paths that are paths of text files of the current tree; paths
\* left over from a previous tree are not counted.
C15_SelectedCount ==
  \A k \in DOMAIN trace :
    (Replaces(trace[k]) /\ trace[k].act.kind = "updateStats") =>
      state.stats.selectedCount =
        Cardinality(Range(state.selectedPaths) \cap TextFilePaths(state.root))

\* the sum of the content lengths over a set of paths with contents
RECURSIVE SumOfLengths(_, _)
SumOfLengths(fileContents, S) ==
  IF S = {} THEN 0
  ELSE LET q == CHOOSE x \in S : TRUE
       IN Len(fileContents[q]) + SumOfLengths(fileContents, S \ {q})

SelectedChars(st) ==
  SumOfLengths(st.fileContents, Range(st.selectedPaths) \cap DOMAIN st.fileContents)

\* C16: when updateStats commits, stats.totalTokens is the ceiling of a
\* quarter of the summed content lengths of the selected paths that have
\* content; selected paths without content and unselected paths add nothing.
C16_TotalTokens ==
  \A k \in DOMAIN trace :
    (Replaces(trace[k]) /\ trace[k].act.kind = "updateStats") =>
      LET n == state.stats.totalTokens
          total == SelectedChars(state)
      IN 4 * n >= total /\ 4 * n < total + 4

\* updateStats committed over a selection with more than four characters, not
\* a multiple of four, with a selected path that has no content and an
\* unselected path that has
C16_Witness ==
  /\ \E k \in DOMAIN trace : Replaces(trace[k]) /\ trace[k].act.kind = "updateStats"
  /\ SelectedChars(state) > 4
  /\ SelectedChars(state) % 4 # 0
  /\ Range(state.selectedPaths) \ DOMAIN state.fileContents # {}
  /\ \E q \in DOMAIN state.fileContents :
       state.fileContents[q] # <<>> /\ q \notin Range(state.selectedPaths)

\* C17: in every state, every selected path is the path of a text file of
\* the current tree; no directory path and no path of an earlier tree is
\* in selectedPaths.
C17_SelectedAreEligible ==
  Range(state.selectedPaths) \subseteq TextFilePaths(state.root)

\* the path arguments of a mutation
ActPaths(act) ==
  CASE act.kind \in {"toggleSelected", "toggleExpanded", "setExpanded", "setFileContents"} ->
         {act.path}
    [] act.kind = "bulkSelectPaths" -> Range(act.pathsToSelect) \cup Range(act.pathsToDeselect)
    [] act.kind = "bulkSetExpanded" -> Range(act.pathsToExpand) \cup Range(act.pathsToCollapse)
    [] OTHER -> {}

NodePaths(tree) == {tree[j].path : j \in 1..Len(tree)}

\* a mutation with path arguments issued while there is no root, or with no
\* argument that is the path of a node of the tree
OnNothing(act, tree) ==
  /\ ActPaths(act) # {}
  /\ tree = NoRoot \/ ActPaths(act) \cap NodePaths(tree) = {}

\* C18: a mutation whose path is not a path of a node of the current tree, or
\* that is issued while the root is absent, leaves selectedPaths,
\* expandedNodes, fileContents and stats as they were.
C18_StaleIsNoOp ==
  [][\A k \in DOMAIN trace' :
       (Replaces(trace'[k]) /\ OnNothing(trace'[k].act, state.root)) =>
         /\ state'.selectedPaths = state.selectedPaths
         /\ state'.expandedNodes = state.expandedNodes
         /\ state'.fileContents = state.fileContents
         /\ state'.stats = state.stats]_vars

\* C19: toggleSelected(path, selected) adds or removes exactly that path
\* when it is the path of a text file of the tree, and leaves selectedPaths
\* as it was when it is the path of a directory or of a non-text file.
C19_ToggleSelected ==
  [][\A k \in DOMAIN trace' :
       (Replaces(trace'[k]) /\ trace'[k].act.kind = "toggleSelected") =>
         LET act == trace'[k].act
             before == Range(state.selectedPaths)
             after == Range(state'.selectedPaths)
         IN /\ act.path \in TextFilePaths(state.root) =>
                 after = IF act.selected THEN before \cup {act.path}
                                         ELSE before \ {act.path}
            /\ act.path \in NodePaths(state.root) \ TextFilePaths(state.root) =>
                 state'.selectedPaths = state.selectedPaths]_vars

\* a chain running reset() that has not committed yet
Resetting(c) == ~IsIdle(c) /\ chains[c].pc \in {"keys", "remove"}

C21_ImportSurvivesFailure ==
  [][\A k \in DOMAIN trace' :
       trace'[k].ev = "reject" =>
         LET c == trace'[k].chain IN
         /\ chains'[c] # Idle
         /\ chains'[c].proc \in {"import", "once"}
         /\ trace'[k].path \notin DOMAIN state'.fileContents
                \/ trace'[k].path \in DOMAIN state.fileContents]_vars

\* C22: when a read of the persisted metadata or contents fails at startup,
\* initialisation still completes and the state is the empty initial state.
C22_FallsBackToEmpty ==
  \A k \in DOMAIN trace :
    trace[k].ev = "initFailed" => state = initialState

\* the commit of the bulkSelectPaths that deselectAll() dispatches
ByDeselectAll(k) ==
  /\ Replaces(trace[k])
  /\ trace[k].act.kind = "bulkSelectPaths"
  /\ trace[k].act.pathsToSelect = <<>>
  /\ k > 1
  /\ trace[k - 1].ev = "getState"

\* C23: after deselectAll no text file path of the current tree is selected,
\* and a second deselectAll right after it leaves selectedPaths as the first
\* one left them.
C23_DeselectAllIdempotent ==
  \A k \in DOMAIN trace :
    ByDeselectAll(k) =>
      /\ Range(state.selectedPaths) \cap TextFilePaths(state.root) = {}
      /\ bulkSelectPaths(state, <<>>, EligiblePaths(getState(state).root)).selectedPaths
           = state.selectedPaths

\* deselectAll committed over a selection with a text file below a directory;
\* a path that is not a text file of the tree is still selected
C23_Witness ==
  /\ \E k \in DOMAIN trace : ByDeselectAll(k)
  /\ state.selectedPaths # <<>>
  /\ metaDB # <<>>
  /\ \E q \in Range(metaDB[1].selectedPaths) \cap TextFilePaths(state.root) : Len(q) > 2

\* the two sets differ in the membership of p and of nothing else
TogglesOnly(before, after, p) ==
  /\ after \ {p} = before \ {p}
  /\ p \in after <=> p \notin before

\* C24: toggling the expansion of a directory path changes the membership of
\* that path only; collapsing a directory keeps the expanded flags stored for
\* the directories below it.  Both the tree view's toggle and the store's
\* toggleExpanded action behave so.
C24_ToggleExpandedFrame ==
  [][/\ \A i \in DirsOf(tvData) :
          LET st == [initialState EXCEPT !.root = tvData, !.expandedNodes = tvExpanded]
          IN TogglesOnly(tvExpanded, toggleExpandedAction(st, tvData[i].path).expandedNodes,
                         tvData[i].path)
     /\ tvExpanded' # tvExpanded =>
          \E r \in Rows : /\ tvData[tvRendered[r].node].isDir
                          /\ TogglesOnly(tvExpanded, tvExpanded', tvRendered[r].path)]_vars

\* a directory is collapsed while a directory below it is still flagged expanded
C24_Witness ==
  /\ <<"r", "d", "s">> \in tvExpanded
  /\ <<"r", "d">> \notin tvExpanded
  /\ <<"r">> \in tvExpanded

\* C25: the commit of setFileContents(path, text) sets fileContents[path] to
\* text and leaves everything else as it was in the state that was current
\* immediately before the commit.
C25_SetFileContentsFrame ==
  [][\A k \in DOMAIN trace' :
       (Replaces(trace'[k]) /\ trace'[k].act.kind = "setFileContents") =>
         state' = [state EXCEPT
                     !.fileContents = Put(@, trace'[k].act.path, trace'[k].act.content)]]_vars

\* C26: right after the store is initialised from persisted data, every key
\* of fileContents is a restored selected path and its entry is the content
\* persisted for it; the content of unselected paths is not loaded.
C26_LazyContents ==
  \A k \in DOMAIN trace :
    trace[k].ev = "init" =>
      /\ DOMAIN state.fileContents \subseteq Range(state.selectedPaths)
      /\ \A q \in DOMAIN state.fileContents :
           q \in DOMAIN contentsDB /\ state.fileContents[q] = contentsDB[q]

\* the store was initialised with contents loaded, a persisted content left
\* out because its path is not selected, and a selected path without content
C26_Witness ==
  /\ \E k \in DOMAIN trace : trace[k].ev = "init"
  /\ state.fileContents # EmptyMap
  /\ \E q \in DOMAIN contentsDB : contentsDB[q] # <<>> /\ q \notin Range(state.selectedPaths)
  /\ Range(state.selectedPaths) \ DOMAIN state.fileContents # {}

\* the nodes of a tree in the order the tree view draws them, all expanded
DisplayOrder(tree) ==
  LET rows == render(tree, <<>>, {tree[j].path : j \in DirsOf(tree)})
  IN [k \in 1..Len(rows) |-> rows[k].node]

\* C27: the lines of the ASCII tree follow the tree view's display order: at
\* every level directories before files, each group ascending by name,
\* whatever the order in which the files were given to the tree builder.
C27_TreeInDisplayOrder ==
  state.root # NoRoot =>
    LET tree == state.root
        covered == Range(Covered(tree, state.selectedPaths))
        shown == SelectSeq(DisplayOrder(tree), LAMBDA i : i \in covered)
    IN LineNames(TreePart(output.lines[1])) = [k \in 1..Len(shown) |-> tree[shown[k]].name]

\* the selected paths of file nodes of the tree that have no entry in fileContents
Pending(st) ==
  {q \in Range(st.selectedPaths) \ DOMAIN st.fileContents :
     \E j \in 1..Len(st.root) : ~st.root[j].isDir /\ st.root[j].path = q}

\* the output has a document block whose opening line carries the path q
HasBlock(q) ==
  \E k \in 2..Len(output.lines) :
    IsPrefix(<<"<document path=\"">> \o PathString(q) \o <<"\">">>, output.lines[k])

\* the ASCII tree of the output has a line with the name of q
HasLine(q) == Last(q) \in Range(LineNames(TreePart(output.lines[1])))

\* C28: a selected file without an entry in fileContents has no document
\* block in the output; it does have its line in the ASCII tree, which lists
\* every selected node whether or not its content has arrived.
C28_PendingHasNoBlock ==
  state.root # NoRoot =>
    \A q \in Pending(state) : ~HasBlock(q) /\ HasLine(q)

\* C28 as stated: such a file has neither a document block nor a tree line
C28_AsStated ==
  state.root # NoRoot =>
    \A q \in Pending(state) : ~HasBlock(q) /\ ~HasLine(q)

\* the output was compiled with a selected file whose content has not come
\* and with a document block for another selected file
C28_Witness ==
  /\ state.root # NoRoot
  /\ \E q \in Pending(state) : q \in TextFilePaths(state.root)
  /\ \E q \in Range(state.selectedPaths) : HasBlock(q)
  /\ \E k \in DOMAIN trace : trace[k].ev \in {"init", "replace"}

\* the directory prefixes of the records: every proper prefix of a record's path
DirPrefixes(files) ==
  UNION {{SubSeq(files[k].path, 1, n) : n \in 1..(Len(files[k].path) - 1)} :
           k \in 1..Len(files)}

\* the nodes of the tree that are of the given kind and carry the path
NodesAt(tree, isDir, path) ==
  {j \in 1..Len(tree) : tree[j].isDir = isDir /\ tree[j].path = path}

C30_EmptyImportIsNoOp ==
  [][\A k \in DOMAIN trace' :
       (trace'[k].ev = "chosen" /\ trace'[k].kept = 0) =>
         /\ Len(trace') = 1
         /\ state' = state
         /\ metaDB' = metaDB
         /\ contentsDB' = contentsDB
         /\ saveQueue' = saveQueue
         /\ chains' = chains
         /\ tvData' = tvData
         /\ output' = output]_vars

\* an import that kept no file has returned, over a state that holds a tree,
\* a selection and persisted data
C30_Witness ==
  /\ \E k \in DOMAIN trace : trace[k].ev = "chosen" /\ trace[k].kept = 0
  /\ state.root # NoRoot
  /\ state.selectedPaths # <<>>
  /\ metaDB # <<>>
  /\ contentsDB # EmptyMap

FilesOf(tree) == {i \in 1..Len(tree) : ~tree[i].isDir}

\* C31: a file node is never indeterminate; a text file is checked exactly
\* when its path is in the selection, a file that is not a text file is not
\* checked even when its path is in the selection. Both implementations
\* agree and the rendered rows show it.
C31_CheckStateOfFile ==
  \A i \in FilesOf(tvData) :
    LET cs == computeCheckboxState(tvData, i, tvSelected)
        ms == selectionMapEntry(tvData, i, tvSelected)
    IN /\ ~cs.indeterminate
       /\ tvData[i].isTextFile => (cs.checked <=> tvData[i].path \in Range(tvSelected))
       /\ ~tvData[i].isTextFile => ~cs.checked
       /\ ms = cs
       /\ \A r \in RowsOf(i) : Shows(r, cs)

\* rendered rows of a selected text file, of an unselected text file and of a
\* file that is not a text file whose path is in the selection
C31_Witness ==
  \E r1, r2, r3 \in Rows :
    LET n1 == tvData[tvRendered[r1].node]
        n2 == tvData[tvRendered[r2].node]
        n3 == tvData[tvRendered[r3].node]
    IN /\ ~n1.isDir /\ n1.isTextFile /\ n1.path \in Range(tvSelected)
       /\ ~n2.isDir /\ n2.isTextFile /\ n2.path \notin Range(tvSelected)
       /\ ~n3.isDir /\ ~n3.isTextFile /\ n3.path \in Range(tvSelected)

\* no dispatch is in flight: every chain has returned and no write is queued
AtRest == (\A c \in Chain : chains[c] = Idle) /\ saveQueue = <<>>

StatsFollow(st) ==
  /\ st.stats.selectedCount = Len(st.selectedPaths)
  /\ 4 * st.stats.totalTokens >= SelectedChars(st)
  /\ 4 * st.stats.totalTokens < SelectedChars(st) + 4

\* C32: once no dispatch is in flight, stats.selectedCount is the size of
\* selectedPaths and stats.totalTokens is the ceiling of a quarter of the
\* summed lengths of the selected contents held in fileContents, also when
\* the selection was changed while an import was loading contents.
C32_StatsFollow == (state # NullState /\ AtRest) => StatsFollow(state)

\* C33: when the tree has been cleared and all in-flight work has finished,
\* nothing of an import that was loading contents when reset() was dispatched
\* is left: fileContents is empty and the contents store holds no entry.
C33_ResetDiscardsImport ==
  (AtRest /\ state.root = NoRoot) =>
    (state.fileContents = EmptyMap /\ contentsDB = EmptyMap)

\* C34: no state value is changed in place by the store or through a value
\* getState() returned: the object this.state refers to has the value the
\* store committed last, and every object a caller holds (delivered by
\* _notify or returned by getState) has the value it had when the caller got
\* it or last changed it itself, whatever was dispatched or changed since.
C34_SnapshotsUntouched ==
  heap # NoHeap =>
    /\ heap.objs[heap.cur] = state
    /\ \A k \in DOMAIN heap.held : heap.objs[heap.held[k].ref] = heap.held[k].was

\* a subscriber holds a state that dispatches have replaced since, and a
\* caller has changed the value getState() gave it
C34_Witness ==
  /\ heap # NoHeap
  /\ \E k \in DOMAIN heap.held :
       heap.held[k].by \in Callbacks /\ heap.held[k].ref # heap.cur /\ heap.held[k].was # state
  /\ \E k \in DOMAIN heap.held :
       /\ heap.held[k].by = "getState"
       /\ PathY \in Range(heap.held[k].was.selectedPaths)
       /\ PathY \notin Range(state.selectedPaths)
  /\ \E k \in DOMAIN trace : trace[k].ev = "replace"

\* the paths outside the subtree at path keep their membership from sel to sel2
SameOutside(path, sel, sel2) ==
  \A q \in (Range(sel) \cup Range(sel2)) :
    ~IsPrefix(path, q) => (q \in Range(sel) <=> q \in Range(sel2))

\* C35: a click on the checkbox of a directory or of a file changes the
\* membership in selectedPaths of no path outside the clicked subtree, in the
\* tree view and in the stored state, and leaves expandedNodes and
\* fileContents as they were.
C35_ToggleFrame ==
  [][\A k \in DOMAIN trace' :
       (Replaces(trace'[k]) /\ trace'[k].act.kind = "setSelectedPaths") =>
         \E r \in Rows :
           LET path == tvData[tvRendered[r].node].path IN
           /\ tvRendered[r].checkbox
           /\ trace'[k].act.selectedPaths =
                handleCheckboxClick(tvData, tvRendered[r].node, tvSelected)
           /\ SameOutside(path, tvSelected, tvSelected')
           /\ SameOutside(path, state.selectedPaths, state'.selectedPaths)
           /\ state'.expandedNodes = state.expandedNodes
           /\ state'.fileContents = state.fileContents
           /\ tvExpanded' = tvExpanded]_vars

\* a click on a checkbox has changed the selection while a selected path
\* outside the clicked subtree, an expanded directory and a content are held
C35_Witness ==
  /\ \E k \in DOMAIN trace :
       Replaces(trace[k]) /\ trace[k].act.kind = "setSelectedPaths"
  /\ OpsFile \in Range(state.selectedPaths)
  /\ <<"r", "d", "c.txt">> \in Range(state.selectedPaths)
  /\ <<"r", "d", "s", "f.txt">> \notin Range(state.selectedPaths)
  /\ state.expandedNodes # {}
  /\ state.fileContents # EmptyMap

\* C36: the tree view and the store keep the selection the user made: the
\* notification of a content-loading dispatch leaves the tree view's selected
\* set as it is.
C36_SelectionNotReverted ==
  [][\A k \in DOMAIN trace' :
       (Replaces(trace'[k]) /\ trace'[k].act.kind = "setFileContents") =>
         Range(tvSelected') = Range(tvSelected)]_vars

\* C37: whenever no dispatch is in flight, the metadata record in storage is
\* the projection (root, selectedPaths, expandedNodes, stats) of the state
\* the store holds; before the first write there is no record and the store
\* holds the initial state.
C37_PersistedIsCurrent ==
  (state # NullState /\ AtRest) =>
    IF metaDB = <<>> THEN state = initialState
                     ELSE metaDB[1] = Projection(state)

\* at rest after a content write that overlapped other dispatches: the state
\* has a tree, a selection and a content, and storage has a record
C37_Witness ==
  /\ AtRest
  /\ metaDB # <<>>
  /\ state.root # NoRoot
  /\ state.selectedPaths # <<>>
  /\ PathX \in DOMAIN state.fileContents

\* C38: once nothing is in flight, every selected text file of the tree
\* whose non-empty content the contents store holds has that content in
\* fileContents and a document block in the output, also when the file was
\* selected only after the page had been loaded again.
C38_SelectedContentLoads ==
  (state # NullState /\ AtRest) =>
    \A q \in Range(state.selectedPaths) \cap TextFilePaths(state.root) :
      (q \in DOMAIN contentsDB /\ contentsDB[q] # <<>>) =>
        /\ q \in DOMAIN state.fileContents
        /\ HasBlock(q)

\* C39: every call of Store.getInstance() resolves with the one Store, whose
\* _init() has run once, and only when its state has been loaded.
C39_OneLoadedInstance ==
  \A k \in DOMAIN trace :
    trace[k].ev = "resolved" =>
      /\ trace[k].store = 1
      /\ Len(heap) = 1
      /\ heap[1].inits = 1
      /\ trace[k].st # NullState

====
